---- MODULE Spec2Model ----
(***************************************************************************)
(* A model of alma_bulk_tools: the archive unpacker's safe extraction      *)
(* (unpack.py), a single resumable transfer (downloader.py _download_one), *)
(* the per-unit download / unpack stages working on one manifest           *)
(* (downloader.py download_for_record, unpack.py unpack_mous_delivered),   *)
(* the recursive unpack of nested archives (unpack.py _recursive_unpack),  *)
(* the index store (index_db.py upsert_mous_from_summary and its callers)  *)
(* and the merge of shard stores into it (index_merge.py).                 *)
(*                                                                         *)
(* Each part has its own variables and its own specification; a            *)
(* specification keeps the variables of the other parts at their idle      *)
(* values.                                                                 *)
(***************************************************************************)
EXTENDS Integers, Sequences, FiniteSets, TLC

VARIABLES
    \* ---- safe extraction of one archive (unpack.py _safe_extract) ----
    members,        \* tar.getmembers(): sequence of [name, type]
    target_dir,     \* the directory the archive is extracted into
    strip_prefix,   \* the detected prefix; <<>> when none was detected
    x_idx,          \* index of the next member of the for loop
    x_state,        \* "idle" | "running" | "done" | "raised"
    x_error,        \* the exception that left _safe_extract, or None
    dirs,           \* directories on disk (absolute paths)
    files,          \* regular files on disk (absolute paths)
    x_written,      \* paths created or written by this extraction
    uids,           \* the manifest's science_goal_uid, group_ous_uid and mous_uid
    uids_before,    \* these fields as unpack_mous_delivered found them
    \* ---- one transfer (downloader.py _download_one) ----
    retry_count,    \* the retry_count argument
    expected,       \* artifact.size_bytes, NoSize when the listing gave none
    temp_file,      \* the file at temp_path (<name>.part): [exists, data]
    local_file,     \* the file at local_path: [exists, data]
    attempt,        \* the loop variable of "for attempt in range(1, retry_count + 1)"
    t_pc,           \* position of the transfer in _download_one
    downloaded,     \* the local variable downloaded
    mode,           \* the local variable mode: "wb" | "ab"
    range_start,    \* the Range header sent: the first byte asked for, NoRange when none
    resp,           \* the response being read: [status, body, left]
    exc,            \* the exception caught by the except clause, or None
    result,         \* the returned tuple [status, error, size], NoResult until then
    sleeps,         \* the argument of every time.sleep of the except clause, in order
    temp_before,    \* the .part content found by the current attempt
    local_before,   \* the file at local_path when the transfer began
    \* ---- the download and unpack stages of one unit ----
    now,            \* what now_utc_iso() returned last
    runs,           \* how many stage invocations were started on the unit
    disk,           \* the delivered directory: filename -> [exists, size, mtime, tar]
    manifest_file,  \* the manifest on disk: [exists, artifacts, history, unpacked, updated_at]
    d_pc,           \* position of download_for_record: "idle" (not running) | "looped" |
                    \* "pool" | "unwinding" | "returned" | "raised"; "unpacked" when
                    \* unpack_mous_delivered has returned
    manifest,       \* the manifest dict download_for_record works on
    available,      \* what fetch_datalink_artifacts returned
    selected_kinds, \* resolve_artifact_selection(artifacts_spec)
    max_workers,    \* the max_workers argument
    to_fetch,       \* the list to_fetch
    tasks,          \* one pool task per element of to_fetch
    d_before,       \* the manifest file as download_for_record found it
    d_disk,         \* the delivered directory as download_for_record found it
    lim,            \* what a behaviour explores: [runs, listings, workers, tars, clock,
                    \* flags]
    unpack_call,    \* the call of unpack_mous_delivered that has just returned, if any:
                    \* <<[flags, selected, skipped, main, recursive]>>
    \* ---- one run of _recursive_unpack on a tree of nested archives ----
    tree,           \* archive path -> [state, parent, tar, dir, name]
    nested,         \* the arguments and locals of _recursive_unpack, and what it did
    \* ---- the index store (index_db.py) and its merge (index_merge.py) ----
    store,          \* the committed tables of the store: [mous, eb, artifact]
    conn,           \* the tables as the open connection sees them, uncommitted
                    \* writes included
    store_before,   \* the committed tables as the last call found them
    upsert_call,    \* the last call of an upsert entry point and its outcome, if any
    merge,          \* the arguments and locals of merge_index_from_shards
    \* ---- the functions of the listing and the batch commands (cli.py) ----
    selection,      \* the argument and locals of resolve_artifact_selection
    classify,       \* the arguments and the result of _classify_artifact
    batch           \* the arguments and locals of a batch command, and the files and
                    \* the row of the unit it is at

x_vars == <<members, target_dir, strip_prefix, x_idx, x_state, x_error, dirs, files, x_written,
            uids, uids_before>>

t_vars == <<retry_count, expected, temp_file, local_file, attempt, t_pc, downloaded, mode,
            range_start, resp, exc, result, sleeps, temp_before, local_before>>

p_vars == <<now, runs, disk, manifest_file, d_pc, manifest, available, selected_kinds,
            max_workers, to_fetch, tasks, d_before, d_disk, lim, unpack_call>>

n_vars == <<tree, nested>>

i_vars == <<store, conn, store_before, upsert_call, merge>>

c_vars == <<selection, classify, batch>>

\* no function is called and no command runs
C_Idle ==
    /\ selection = [pc |-> "off"]
    /\ classify = [pc |-> "off"]
    /\ batch = [pc |-> "off"]

None == "None"

(***************************************************************************)
(* Paths.  A path component is a sequence of tokens (atomic pieces of      *)
(* text), a path is a sequence of components, and str(path) is the         *)
(* sequence of tokens with "/" separators, so that str.startswith is the   *)
(* prefix relation on token sequences.                                     *)
(***************************************************************************)
IsPrefixOf(s, t) == Len(s) <= Len(t) /\ SubSeq(t, 1, Len(s)) = s

RECURSIVE Flatten(_)
Flatten(path) ==
    IF path = <<>> THEN <<>> ELSE <<"/">> \o Head(path) \o Flatten(Tail(path))

\* str(p) of an absolute path
Str(path) == IF path = <<>> THEN <<"/">> ELSE Flatten(path)

ROOT == <<"/">>      \* the anchor part of an absolute member name
DOT == <<".">>
DOTDOT == <<"..">>

\* names used in the bounded file system
ParentName == <<"p">>
TargetName == <<"t">>
SiblingName == <<"t", "x">>    \* a name that begins with the target's name
FileA == <<"a">>
FileB == <<"b">>

\* unpack.py _member_parts
MemberParts(member_name) ==
    SelectSeq(member_name, LAMBDA p : p # <<>> /\ p # DOT)

\* "if not strip_prefix": None and the empty tuple are the same to the code
NoPrefix == <<>>

\* unpack.py _strip_parts
StripParts(parts, prefix) ==
    IF prefix = NoPrefix THEN parts
    ELSE IF Len(parts) >= Len(prefix) /\ SubSeq(parts, 1, Len(prefix)) = prefix
         THEN SubSeq(parts, Len(prefix) + 1, Len(parts))
         ELSE parts

\* pathlib: target_dir / Path(*parts); an absolute right operand replaces the left
JoinPath(base, parts) ==
    IF parts # <<>> /\ Head(parts) = ROOT THEN Tail(parts) ELSE base \o parts

\* pathlib Path.resolve() on a tree without symbolic links: ".." removes the
\* last component, and the parent of the root is the root
RECURSIVE ResolveFrom(_, _)
ResolveFrom(acc, rest) ==
    IF rest = <<>> THEN acc
    ELSE IF Head(rest) = DOTDOT
         THEN ResolveFrom(IF acc = <<>> THEN <<>> ELSE SubSeq(acc, 1, Len(acc) - 1), Tail(rest))
         ELSE ResolveFrom(Append(acc, Head(rest)), Tail(rest))

Resolve(path) == ResolveFrom(<<>>, path)

\* the real containment relation: root is a component-wise ancestor of (or is) dest
IsInside(root, dest) == IsPrefixOf(root, dest)

\* unpack.py line 126: not str(dest).startswith(str(root))
UnsafeDest(root, dest) == ~IsPrefixOf(Str(root), Str(dest))

\* unpack.py _detect_parent_redundant_prefix
DetectParentRedundantPrefix(ms, parent_dir_name) ==
    LET top_levels == { MemberParts(ms[i].name)[1] :
                          i \in { j \in 1..Len(ms) : Len(MemberParts(ms[j].name)) >= 2 } }
    IN IF Cardinality(top_levels) = 1 /\ top_levels = {parent_dir_name}
       THEN <<parent_dir_name>>
       ELSE NoPrefix

Parents(path) == { SubSeq(path, 1, n) : n \in 0..(Len(path) - 1) }

\* Path.mkdir(parents=True, exist_ok=True) succeeds unless the path or one of
\* its ancestors is a regular file
MkdirFails(path) == \E q \in Parents(path) \cup {path} : q \in files

MkdirNew(path) == (Parents(path) \cup {path}) \ dirs

(***************************************************************************)
(* Bounds and inputs of the extraction model.                              *)
(***************************************************************************)
MaxMembers == 2

MemberNames ==
    { <<FileA>>,
      <<DOT>>,
      <<FileA, FileB>>,
      <<DOT, FileB>>,
      <<TargetName, FileA>>,
      <<DOTDOT, DOTDOT, <<"etc">>, <<"passwd">> >>,
      <<DOTDOT, SiblingName, FileA>>,
      <<DOTDOT, TargetName, FileB>>,
      <<ROOT, <<"etc">>, <<"passwd">> >> }

MemberTypes == {"file", "dir", "link"}

Members == [name : MemberNames, type : MemberTypes]

Archives == UNION { [1..n -> Members] : n \in 1..MaxMembers }

TargetDir == <<ParentName, TargetName>>

\* a UID field of the manifest: unset (None or ""), "unknown", or a UID
NoUid == <<>>
UnknownUid == <<"unknown">>
KnownUid == <<"uid://", "A002", "X5", "X6">>
NoUids == [science_goal_uid |-> NoUid, group_ous_uid |-> NoUid, mous_uid |-> NoUid]

X_Idle ==
    /\ uids = NoUids
    /\ uids_before = NoUids
    /\ members = <<>>
    /\ target_dir = TargetDir
    /\ strip_prefix = NoPrefix
    /\ x_idx = 1
    /\ x_state = "idle"
    /\ x_error = None
    /\ dirs = {<<>>, <<ParentName>>, TargetDir}
    /\ files = {}
    /\ x_written = {}

\* the state in which _recursive_unpack (lines 257-262) enters _safe_extract:
\* the archive is open, and the prefix is the one the caller detected
X_Init ==
    /\ uids = NoUids
    /\ uids_before = NoUids
    /\ members \in Archives
    /\ target_dir = TargetDir
    /\ strip_prefix = DetectParentRedundantPrefix(members, TargetName)
    /\ x_idx = 1
    /\ x_state = "running"
    /\ x_error = None
    /\ dirs = {<<>>, <<ParentName>>, TargetDir}
    /\ files = {}
    /\ x_written = {}

\* unpack.py _safe_extract, one iteration of the loop over tar.getmembers()
member == members[x_idx]
parts == StripParts(MemberParts(member.name), strip_prefix)
root == Resolve(target_dir)
dest == Resolve(JoinPath(target_dir, parts))

X_Frame == UNCHANGED <<t_vars, p_vars, n_vars, i_vars, c_vars, uids, uids_before>>

Raise(msg) ==
    /\ X_Frame
    /\ x_state' = "raised"
    /\ x_error' = msg
    /\ UNCHANGED <<members, target_dir, strip_prefix, x_idx>>

NextMember ==
    /\ X_Frame
    /\ x_idx' = x_idx + 1
    /\ x_state' = x_state
    /\ x_error' = x_error
    /\ UNCHANGED <<members, target_dir, strip_prefix>>

\* line 122: a member with no parts left is skipped
SkipEmpty ==
    /\ x_state = "running" /\ x_idx <= Len(members)
    /\ parts = <<>>
    /\ NextMember
    /\ UNCHANGED <<dirs, files, x_written>>

\* lines 126-127: the destination is checked before anything is written
RejectUnsafe ==
    /\ x_state = "running" /\ x_idx <= Len(members)
    /\ parts # <<>>
    /\ UnsafeDest(root, dest)
    /\ Raise("Unsafe tar member path")
    /\ UNCHANGED <<dirs, files, x_written>>

\* lines 129-131
ExtractDir ==
    /\ x_state = "running" /\ x_idx <= Len(members)
    /\ parts # <<>>
    /\ ~UnsafeDest(root, dest)
    /\ member.type = "dir"
    /\ IF MkdirFails(dest)
       THEN /\ Raise("OSError")
            /\ UNCHANGED <<dirs, files, x_written>>
       ELSE /\ dirs' = dirs \cup MkdirNew(dest)
            /\ x_written' = x_written \cup MkdirNew(dest)
            /\ NextMember
            /\ UNCHANGED files

\* lines 133-144
ExtractFile ==
    /\ x_state = "running" /\ x_idx <= Len(members)
    /\ parts # <<>>
    /\ ~UnsafeDest(root, dest)
    /\ member.type = "file"
    /\ LET parent == SubSeq(dest, 1, Len(dest) - 1)
       IN IF dest = <<>> \/ MkdirFails(parent)
          THEN /\ Raise("OSError")
               /\ UNCHANGED <<dirs, files, x_written>>
          ELSE IF dest \in dirs \cup MkdirNew(parent)
          THEN \* dest.open("wb") on a directory, after the parents were made
               /\ dirs' = dirs \cup MkdirNew(parent)
               /\ x_written' = x_written \cup MkdirNew(parent)
               /\ Raise("OSError")
               /\ UNCHANGED files
          ELSE /\ dirs' = dirs \cup MkdirNew(parent)
               /\ files' = files \cup {dest}
               /\ x_written' = x_written \cup MkdirNew(parent) \cup {dest}
               /\ NextMember

\* lines 146-147: links and special files are ignored
SkipLink ==
    /\ x_state = "running" /\ x_idx <= Len(members)
    /\ parts # <<>>
    /\ ~UnsafeDest(root, dest)
    /\ member.type = "link"
    /\ NextMember
    /\ UNCHANGED <<dirs, files, x_written>>

\* the loop is over: _safe_extract returns
ExtractReturn ==
    /\ x_state = "running" /\ x_idx > Len(members)
    /\ x_state' = "done"
    /\ X_Frame
    /\ UNCHANGED <<members, target_dir, strip_prefix, x_idx, x_error, dirs, files, x_written>>

X_Next ==
    \/ SkipEmpty
    \/ RejectUnsafe
    \/ ExtractDir
    \/ ExtractFile
    \/ SkipLink
    \/ ExtractReturn

(***************************************************************************)
(* The archive of an ASA delivery: unpack.py _detect_asa_prefix and the    *)
(* backfill of the manifest's UIDs, unpack_mous_delivered lines 313-355.   *)
(* A component such as science_goal.uid___A001_X1_X2 is the token sequence *)
(* "science_goal.", "uid___", "A001", "X1", "X2".                          *)
(***************************************************************************)
ProjectDir == <<"2019.1.00001.S">>
GoalDir == <<"science_goal.", "uid___", "A001", "X1", "X2">>
OtherGoalDir == <<"science_goal.", "uid___", "A001", "X1", "X9">>
GroupDir == <<"group.", "uid___", "A001", "X1", "X3">>
MemberDir == <<"member.", "uid___", "A001", "X1", "X4">>
QaDir == <<"qa">>

\* members of delivered archives: files one or two levels beneath the
\* three components or beneath a project directory and the three
\* components, the directory of the three components itself, a file of
\* another science goal and a file outside any such tree
AsaMembers ==
    { [name |-> <<GoalDir, GroupDir, MemberDir, FileA>>, type |-> "file"],
      [name |-> <<GoalDir, GroupDir, MemberDir, QaDir, FileA>>, type |-> "file"],
      [name |-> <<ProjectDir, GoalDir, GroupDir, MemberDir, FileB>>, type |-> "file"],
      [name |-> <<ProjectDir, GoalDir, GroupDir, MemberDir, QaDir, FileB>>, type |-> "file"],
      [name |-> <<GoalDir, GroupDir, MemberDir>>, type |-> "dir"],
      [name |-> <<OtherGoalDir, GroupDir, MemberDir, FileA>>, type |-> "file"],
      [name |-> <<QaDir, FileB>>, type |-> "file"] }

AsaArchives == UNION { [1..n -> AsaMembers] : n \in 1..MaxMembers }

UidValues == {NoUid, UnknownUid, KnownUid}

\* _detect_asa_prefix, lines 60-79: the candidate a member contributes, none
\* when the loop continues with the next member
AsaCandidate(p) ==
    IF Len(p) >= 5
    THEN IF /\ IsPrefixOf(<<"science_goal.", "uid___">>, p[2])
            /\ IsPrefixOf(<<"group.", "uid___">>, p[3])
            /\ IsPrefixOf(<<"member.", "uid___">>, p[4])
         THEN SubSeq(p, 1, 4)
         ELSE NoPrefix
    ELSE IF Len(p) >= 4
    THEN IF /\ IsPrefixOf(<<"science_goal.", "uid___">>, p[1])
            /\ IsPrefixOf(<<"group.", "uid___">>, p[2])
            /\ IsPrefixOf(<<"member.", "uid___">>, p[3])
         THEN SubSeq(p, 1, 3)
         ELSE NoPrefix
    ELSE NoPrefix

\* _detect_asa_prefix, the loop over the members
RECURSIVE DetectLoop(_, _, _)
DetectLoop(ms, i, detected) ==
    IF i > Len(ms) THEN detected
    ELSE LET candidate == AsaCandidate(MemberParts(ms[i].name))
         IN IF candidate = NoPrefix THEN DetectLoop(ms, i + 1, detected)
            ELSE IF detected = NoPrefix THEN DetectLoop(ms, i + 1, candidate)
            ELSE IF detected # candidate THEN NoPrefix
            ELSE DetectLoop(ms, i + 1, detected)

DetectAsaPrefix(ms) == DetectLoop(ms, 1, NoPrefix)

\* unpack.py _uid_uri_from_uid_segment: the segment without "uid___", split
\* at "_"; None with fewer than three pieces
UidUriFromUidSegment(segment) ==
    LET token == IF segment # <<>> /\ Head(segment) = "uid___" THEN Tail(segment) ELSE segment
    IN IF Len(token) < 3 THEN NoUid ELSE <<"uid://">> \o token

\* unpack.py _uid_from_component; label is the prefix with its dot
UidFromComponent(component, label) ==
    IF component = <<>> \/ Head(component) # label THEN NoUid
    ELSE UidUriFromUidSegment(Tail(component))

\* str(uid).endswith("unknown")
EndsWithUnknown(uid) == uid # <<>> /\ uid[Len(uid)] = "unknown"

\* unpack_mous_delivered, lines 325-353
BackfillUids(u, sp) ==
    IF sp = NoPrefix THEN u
    ELSE LET c == IF Len(sp) = 4 THEN <<sp[2], sp[3], sp[4]>>
                  ELSE IF Len(sp) = 3 THEN <<sp[1], sp[2], sp[3]>>
                  ELSE <<<<>>, <<>>, <<>> >>
             sg_uid == UidFromComponent(c[1], "science_goal.")
             group_uid == UidFromComponent(c[2], "group.")
             member_uid == UidFromComponent(c[3], "member.")
         IN [science_goal_uid |->
                 IF sg_uid # NoUid /\ (u.science_goal_uid = NoUid
                                       \/ EndsWithUnknown(u.science_goal_uid))
                 THEN sg_uid ELSE u.science_goal_uid,
             group_ous_uid |->
                 IF group_uid # NoUid /\ u.group_ous_uid = NoUid
                 THEN group_uid ELSE u.group_ous_uid,
             mous_uid |->
                 IF member_uid # NoUid /\ u.mous_uid = NoUid
                 THEN member_uid ELSE u.mous_uid]

\* the state in which unpack_mous_delivered (lines 315-318) enters
\* _safe_extract: the archive is open and its ASA prefix detected
A_Init ==
    /\ members \in AsaArchives
    /\ target_dir = TargetDir
    /\ strip_prefix = DetectAsaPrefix(members)
    /\ x_idx = 1
    /\ x_state = "running"
    /\ x_error = None
    /\ dirs = {<<>>, <<ParentName>>, TargetDir}
    /\ files = {}
    /\ x_written = {}
    /\ uids \in [science_goal_uid : UidValues, group_ous_uid : UidValues, mous_uid : UidValues]
    /\ uids_before = uids

\* lines 320-353: the extraction has returned, the UIDs are backfilled
Backfill ==
    /\ x_state = "done"
    /\ x_state' = "unpacked"
    /\ uids' = BackfillUids(uids, strip_prefix)
    /\ UNCHANGED <<members, target_dir, strip_prefix, x_idx, x_error, dirs, files, x_written,
                   uids_before, t_vars, p_vars, n_vars, i_vars, c_vars>>

A_Next ==
    \/ SkipEmpty
    \/ ExtractDir
    \/ ExtractFile
    \/ ExtractReturn
    \/ Backfill


(***************************************************************************)
(* One transfer: downloader.py _download_one.                              *)
(*                                                                         *)
(* A file is [exists, data] with data the sequence of its bytes.  The      *)
(* server holds Content under the artifact's URL; which response it gives  *)
(* to a request is its own choice.                                         *)
(***************************************************************************)
NoSize == -1        \* size_bytes is None
NoRange == -1       \* no Range header
NoFile == [exists |-> FALSE, data |-> <<>>]
File(data) == [exists |-> TRUE, data |-> data]
NoResp == [status |-> 0, body |-> <<>>, left |-> <<>>]
NoResult == [status |-> None, error |-> None, size |-> NoSize]

\* bounds of the transfer model
MaxRetries == 5
ContentLen == 3

\* the bytes the server holds: 1, 2, .., ContentLen
Content == [i \in 1..ContentLen |-> i]

\* a byte that is not part of Content: what a stale file holds
Stale == 0

\* st_size
Size(f) == Len(f.data)

\* the .part files an earlier run may have left: none, an empty one, a prefix
\* of the content (the whole content included), or stale bytes
InitialParts ==
    {NoFile} \cup { File(SubSeq(Content, 1, n)) : n \in 0..ContentLen }
             \cup { File(<<Stale>>), File(<<Stale, Stale>>) }

\* downloader.py _artifact_exists
ArtifactExists(loc, expected_size) ==
    IF ~loc.exists THEN FALSE
    ELSE IF expected_size = NoSize THEN TRUE
    ELSE Size(loc) = expected_size

\* download_for_record starts a transfer only for a path that fails _artifact_exists
InitialLocals(expected_size) ==
    { f \in {NoFile, File(<<Stale>>), File(<<Stale, Stale>>)} : ~ArtifactExists(f, expected_size) }

\* line 326: min(2**attempt, 10)
BackoffUncapped(n) == 2 ^ n

Backoff(n) == IF 2 ^ n < 10 THEN 2 ^ n ELSE 10

\* lines 306-308 as they would be without the restart from zero
ModeKeepAppend(dl, status) == IF dl > 0 THEN "ab" ELSE "wb"

\* lines 294-297 and 306-308: append to a non-empty .part unless the answer is a 200
ModeFor(dl, status) == IF dl > 0 /\ status # 200 THEN "ab" ELSE "wb"

\* line 315 without the comparison
SizeMismatchNever(expected_size, final_size) == FALSE

\* line 315
SizeMismatch(expected_size, final_size) ==
    expected_size # NoSize /\ final_size # expected_size

\* line 324
LastAttempt(n, retries) == n = retries

T_Idle ==
    /\ retry_count = 0
    /\ expected = NoSize
    /\ temp_file = NoFile
    /\ local_file = NoFile
    /\ attempt = 0
    /\ t_pc = "idle"
    /\ downloaded = 0
    /\ mode = "wb"
    /\ range_start = NoRange
    /\ resp = NoResp
    /\ exc = None
    /\ result = NoResult
    /\ sleeps = <<>>
    /\ temp_before = NoFile
    /\ local_before = NoFile

\* _download_one is entered (lines 285-289 change nothing the loop reads)
T_Init ==
    /\ retry_count \in 0..MaxRetries
    /\ expected \in {NoSize, ContentLen, ContentLen - 1}
    /\ temp_file \in InitialParts
    /\ local_file \in InitialLocals(expected)
    /\ attempt = 0
    /\ t_pc = "for"
    /\ downloaded = 0
    /\ mode = "wb"
    /\ range_start = NoRange
    /\ resp = NoResp
    /\ exc = None
    /\ result = NoResult
    /\ sleeps = <<>>
    /\ temp_before = temp_file
    /\ local_before = local_file

T_Frame == UNCHANGED <<x_vars, p_vars, n_vars, i_vars, c_vars>>

\* line 291: the next attempt begins
LoopNext ==
    /\ t_pc = "for" /\ attempt < retry_count
    /\ attempt' = attempt + 1
    /\ t_pc' = "stat"
    /\ UNCHANGED <<retry_count, expected, temp_file, local_file, downloaded, mode, range_start,
                   resp, exc, result, sleeps, temp_before, local_before>>
    /\ T_Frame

\* line 327: the loop ran out without returning (retry_count < 1)
LoopExhausted ==
    /\ t_pc = "for" /\ attempt >= retry_count
    /\ result' = [status |-> "error", error |-> "retry exhausted", size |-> NoSize]
    /\ t_pc' = "returned"
    /\ UNCHANGED <<retry_count, expected, temp_file, local_file, attempt, downloaded, mode,
                   range_start, resp, exc, sleeps, temp_before, local_before>>
    /\ T_Frame

\* lines 292-297: the size of the .part decides the Range header and the mode
BuildRequest ==
    /\ t_pc = "stat"
    /\ downloaded' = (IF temp_file.exists THEN Size(temp_file) ELSE 0)
    /\ range_start' = (IF downloaded' > 0 THEN downloaded' ELSE NoRange)
    /\ mode' = ModeFor(downloaded', 0)
    /\ temp_before' = temp_file
    /\ resp' = NoResp
    /\ exc' = None
    /\ t_pc' = "get"
    /\ UNCHANGED <<retry_count, expected, temp_file, local_file, attempt, result, sleeps,
                   local_before>>
    /\ T_Frame

\* an exception inside the try block: control goes to the except clause
Throw(msg) ==
    /\ exc' = msg
    /\ t_pc' = "except"

\* line 300: session.get raises (no connection, timeout)
GetConnectionError ==
    /\ t_pc = "get"
    /\ Throw("ConnectionError")
    /\ UNCHANGED <<retry_count, expected, temp_file, local_file, attempt, downloaded, mode,
                   range_start, resp, result, sleeps, temp_before, local_before>>
    /\ T_Frame

\* line 309: raise_for_status on an error status; a server that honours
\* ranges answers 416 to a range that starts at or after the end
GetErrorStatus ==
    /\ t_pc = "get"
    /\ \E st \in {500} \cup (IF range_start # NoRange /\ range_start >= ContentLen
                             THEN {416} ELSE {}) :
          /\ resp' = [status |-> st, body |-> <<>>, left |-> <<>>]
          /\ Throw(IF st = 416 THEN "HTTPError 416" ELSE "HTTPError 500")
    /\ UNCHANGED <<retry_count, expected, temp_file, local_file, attempt, downloaded, mode,
                   range_start, result, sleeps, temp_before, local_before>>
    /\ T_Frame

\* lines 306-309: a 200 with the whole content (the request had no Range, or
\* the server ignored it)
GetFull ==
    /\ t_pc = "get"
    /\ resp' = [status |-> 200, body |-> Content, left |-> Content]
    /\ mode' = ModeFor(downloaded, 200)
    /\ downloaded' = (IF downloaded > 0 THEN 0 ELSE downloaded)
    /\ t_pc' = "open"
    /\ UNCHANGED <<retry_count, expected, temp_file, local_file, attempt, range_start, exc,
                   result, sleeps, temp_before, local_before>>
    /\ T_Frame

\* lines 306-309: a 206 with the bytes from range_start on
GetPartial ==
    /\ t_pc = "get"
    /\ range_start # NoRange /\ range_start < ContentLen
    /\ LET rest == SubSeq(Content, range_start + 1, ContentLen)
       IN resp' = [status |-> 206, body |-> rest, left |-> rest]
    /\ mode' = ModeFor(downloaded, 206)
    /\ t_pc' = "open"
    /\ UNCHANGED <<retry_count, expected, temp_file, local_file, attempt, downloaded,
                   range_start, exc, result, sleeps, temp_before, local_before>>
    /\ T_Frame

\* line 310: temp_path.open(mode); "wb" truncates, "ab" keeps what is there
OpenPart ==
    /\ t_pc = "open"
    /\ temp_file' = (IF mode = "wb" THEN File(<<>>) ELSE File(temp_file.data))
    /\ t_pc' = "iter"
    /\ UNCHANGED <<retry_count, expected, local_file, attempt, downloaded, mode, range_start,
                   resp, exc, result, sleeps, temp_before, local_before>>
    /\ T_Frame

\* lines 311-313: one chunk is written to the .part
WriteChunk ==
    /\ t_pc = "iter" /\ resp.left # <<>>
    /\ temp_file' = File(Append(temp_file.data, Head(resp.left)))
    /\ resp' = [resp EXCEPT !.left = Tail(resp.left)]
    /\ UNCHANGED <<retry_count, expected, local_file, attempt, t_pc, downloaded, mode,
                   range_start, exc, result, sleeps, temp_before, local_before>>
    /\ T_Frame

\* line 311: iter_content raises, the connection broke before the body ended
StreamBreak ==
    /\ t_pc = "iter" /\ resp.left # <<>>
    /\ Throw("ChunkedEncodingError")
    /\ UNCHANGED <<retry_count, expected, temp_file, local_file, attempt, downloaded, mode,
                   range_start, resp, result, sleeps, temp_before, local_before>>
    /\ T_Frame

\* lines 314-318: the body ended; the size of the .part is checked
Verify ==
    /\ t_pc = "iter" /\ resp.left = <<>>
    /\ IF SizeMismatch(expected, Size(temp_file))
       THEN Throw("Size mismatch")
       ELSE /\ t_pc' = "replace"
            /\ exc' = exc
    /\ UNCHANGED <<retry_count, expected, temp_file, local_file, attempt, downloaded, mode,
                   range_start, resp, result, sleeps, temp_before, local_before>>
    /\ T_Frame

\* line 319: os.replace(temp_path, local_path)
Replace ==
    /\ t_pc = "replace"
    /\ local_file' = temp_file
    /\ temp_file' = NoFile
    /\ t_pc' = "replaced"
    /\ UNCHANGED <<retry_count, expected, attempt, downloaded, mode, range_start, resp, exc,
                   result, sleeps, temp_before, local_before>>
    /\ T_Frame

\* lines 320-322
ReturnOk ==
    /\ t_pc = "replaced"
    /\ result' = [status |-> "ok", error |-> None, size |-> Size(local_file)]
    /\ t_pc' = "returned"
    /\ UNCHANGED <<retry_count, expected, temp_file, local_file, attempt, downloaded, mode,
                   range_start, resp, exc, sleeps, temp_before, local_before>>
    /\ T_Frame

\* lines 323-326
Except ==
    /\ t_pc = "except"
    /\ IF LastAttempt(attempt, retry_count)
       THEN /\ result' = [status |-> "error", error |-> exc, size |-> NoSize]
            /\ t_pc' = "returned"
            /\ sleeps' = sleeps
       ELSE /\ sleeps' = Append(sleeps, Backoff(attempt))
            /\ t_pc' = "for"
            /\ result' = result
    /\ UNCHANGED <<retry_count, expected, temp_file, local_file, attempt, downloaded, mode,
                   range_start, resp, exc, temp_before, local_before>>
    /\ T_Frame

T_Next ==
    \/ LoopNext
    \/ LoopExhausted
    \/ BuildRequest
    \/ GetConnectionError
    \/ GetErrorStatus
    \/ GetFull
    \/ GetPartial
    \/ OpenPart
    \/ WriteChunk
    \/ StreamBreak
    \/ Verify
    \/ Replace
    \/ ReturnOk
    \/ Except


(***************************************************************************)
(* The download stage (downloader.py download_for_record) and the unpack   *)
(* stage (unpack.py unpack_mous_delivered) of one unit, working on the     *)
(* unit's manifest and its delivered directory.  A transfer is a pool task *)
(* that ends with the tuple _download_one returns.                         *)
(***************************************************************************)
NoTime == -1

\* bounds of the stage model
MaxClock == 1
MaxRuns == 4
MaxListing == 2
MaxWorkers == 2
MaxRepeat == 2

AuxName == "m.auxproducts.tgz"
CalName == "cal.txt"
\* a second delivery of the auxiliary products, a weblog archive and an
\* archive of calibration tables
SecondName == "m2.auxproducts.tgz"
WeblogName == "w.weblog.tgz"
TablesName == "c.caltables.tgz"
Filenames == {AuxName, CalName, SecondName, WeblogName, TablesName}
\* file sizes: one that matches an expected size and one that does not
Sizes == {1, 2}

\* the kind _classify_artifact gives to a file of the listing (line 204)
KindOf(fn) ==
    CASE fn \in {AuxName, SecondName} -> "auxiliary"
      [] fn = WeblogName -> "weblog"
      [] fn = TablesName -> "other"
      [] OTHER -> "calibration"

\* unpack.py _is_archive: the names that end in .tgz, .tar.gz or .tar
IsArchive(fn) == fn \in {AuxName, SecondName, WeblogName, TablesName}

\* unpack.py _matches_any_pattern with DEFAULT_RECURSIVE_UNPACK_PATTERNS
\* (*.auxproducts.tgz, *.caltables.tgz, *weblog*.tgz, ...)
MatchesAnyPattern(fn) == fn \in {AuxName, SecondName, WeblogName, TablesName}

\* a file of the delivered directory; tar tells what tarfile.open and
\* _safe_extract make of it: "ok", "bad" (tarfile.open raises), "no" (not an
\* archive), "clash" (an archive whose members carry an ASA prefix and, with
\* the prefix stripped, land on a directory of the delivered directory:
\* _safe_extract raises in unpack_mous_delivered, not in _recursive_unpack,
\* which leaves the prefix in place)
Absent == [exists |-> FALSE, size |-> 0, mtime |-> 0, tar |-> "no"]
TarKinds(fn) == IF IsArchive(fn) THEN {"ok", "bad", "clash"} ELSE {"no"}

\* models.py ArtifactInfo, the fields the stages read
Artifact(fn, sz) == [filename |-> fn, kind |-> KindOf(fn), size_bytes |-> sz]

\* the rows a listing is made of: the archive with or without a size, and
\* the plain file
Artifacts == {Artifact(AuxName, NoSize), Artifact(AuxName, 1), Artifact(CalName, 1)}

Listings == UNION { [1..n -> Artifacts] : n \in 0..MaxListing }

\* values of resolve_artifact_selection: "default" and "auxiliary"
Selections == { {"calibration", "scripts", "weblog", "qa_reports", "auxiliary", "readme",
                 "calibration_products"},
                {"auxiliary"} }

\* str(exc) of the last attempt of a transfer
ErrorMessages == {"HTTPError 500"}

NoStamp == <<>>

NoManifest ==
    [exists |-> FALSE, artifacts |-> <<>>, history |-> <<>>,
     unpacked |-> [fn \in Filenames |-> NoStamp], updated_at |-> NoTime]

\* downloader.py _read_manifest: the file's payload, or a fresh manifest
ReadManifest(t) ==
    IF manifest_file.exists THEN manifest_file
    ELSE [NoManifest EXCEPT !.exists = TRUE, !.updated_at = t]

\* downloader.py _save_manifest
SaveManifest(m, t) == [m EXCEPT !.exists = TRUE, !.updated_at = t]

SetMin(S) == CHOOSE i \in S : \A j \in S : i <= j

\* a lookup that finds no entry
EntryLookupNever(arts, fn) == 0

\* downloader.py _entry_lookup: the index of the first entry with the
\* filename, 0 when there is none
EntryLookup(arts, fn) ==
    LET hits == { i \in 1..Len(arts) : arts[i].filename = fn }
    IN IF hits = {} THEN 0 ELSE SetMin(hits)

\* the entries of a manifest that carry the filename
EntriesOf(m, fn) == { m.artifacts[i] : i \in { j \in 1..Len(m.artifacts) :
                                                  m.artifacts[j].filename = fn } }

\* downloader.py _artifact_selected
ArtifactSelected(kind, selected) == kind \in selected

\* the check without the comparison of sizes
LocalExistsAnySize(f, expected_size) == f.exists

\* _artifact_exists on a file of the delivered directory
LocalExists(f, expected_size) ==
    ArtifactExists([exists |-> f.exists, data |-> [i \in 1..f.size |-> 0]], expected_size)

\* the check without the post-extraction case
SatisfiedNever(arts, idx) == FALSE

\* downloader.py _artifact_satisfied_without_archive_file
ArtifactSatisfiedWithoutArchiveFile(arts, idx) ==
    /\ idx # 0
    /\ arts[idx].removed = "True"
    /\ arts[idx].unpacked_to # None

\* lines 367-372: an entry that is there is refreshed
RefreshEntry(e, art, local, t) ==
    [e EXCEPT !.status = "present",
              !.kind = art.kind,
              !.size_bytes = IF local.exists THEN local.size ELSE @,
              !.updated_at = t]

\* lines 374-388: a new entry for a file found on disk
PresentEntry(art, local, t) ==
    [filename |-> art.filename, kind |-> art.kind,
     size_bytes |-> IF local.exists THEN local.size ELSE NoSize,
     status |-> "present", error |-> None,
     updated_at |-> t,
     removed |-> "unset", unpacked_to |-> None, unpack_errors |-> 0]

\* lines 360-390: the loop over the listing
RECURSIVE FirstLoop(_, _, _, _, _)
FirstLoop(arts, fetch, rest, selected, t) ==
    IF rest = <<>> THEN [artifacts |-> arts, to_fetch |-> fetch]
    ELSE LET art == Head(rest)
             local == disk[art.filename]
             existing == EntryLookup(arts, art.filename)
         IN IF ~ArtifactSelected(art.kind, selected)
            THEN FirstLoop(arts, fetch, Tail(rest), selected, t)
            ELSE IF LocalExists(local, art.size_bytes)
                    \/ ArtifactSatisfiedWithoutArchiveFile(arts, existing)
            THEN FirstLoop(IF existing # 0
                           THEN [arts EXCEPT ![existing] = RefreshEntry(@, art, local, t)]
                           ELSE Append(arts, PresentEntry(art, local, t)),
                           fetch, Tail(rest), selected, t)
            ELSE FirstLoop(arts, Append(fetch, art), Tail(rest), selected, t)

\* lines 427-441: the payload made of the tuple a task returned
Payload(art, task, t) ==
    [filename |-> art.filename, kind |-> art.kind,
     size_bytes |-> task.size,
     status |-> IF task.status = "ok" THEN "present" ELSE "error",
     error |-> task.error,
     updated_at |-> t,
     removed |-> "False", unpacked_to |-> None, unpack_errors |-> 0]

\* lines 442-445: existing.update(payload) keeps the keys the payload lacks
ApplyPayload(arts, art, task, t) ==
    LET existing == EntryLookup(arts, art.filename)
        pl == Payload(art, task, t)
    IN IF existing # 0
       THEN [arts EXCEPT ![existing] =
                [pl EXCEPT !.unpacked_to = arts[existing].unpacked_to,
                           !.unpack_errors = arts[existing].unpack_errors]]
       ELSE Append(arts, pl)

\* a future of the pool; raced: a task of the same filename, and so of the
\* same .part, ran at the same time; renamed: such a task renamed the .part
\* while this one was running
NewTask(art) ==
    [art |-> art, state |-> "queued", raced |-> FALSE, renamed |-> FALSE, status |-> None,
     error |-> None, size |-> NoSize, collected |-> FALSE]

Running == { i \in 1..Len(tasks) : tasks[i].state = "running" }

\* the with block of lines 408-445 is left with every future consumed
PoolDrainedAlways == TRUE

PoolDrained == \A i \in 1..Len(tasks) : tasks[i].collected

P_Idle ==
    /\ now = 0
    /\ runs = 0
    /\ disk = [fn \in Filenames |-> Absent]
    /\ manifest_file = NoManifest
    /\ d_pc = "off"
    /\ manifest = NoManifest
    /\ available = <<>>
    /\ selected_kinds = {}
    /\ max_workers = 1
    /\ to_fetch = <<>>
    /\ tasks = <<>>
    /\ d_before = NoManifest
    /\ d_disk = [fn \in Filenames |-> Absent]
    /\ lim = [runs |-> 0, listings |-> {}, workers |-> {}, tars |-> {}, clock |-> 0,
              flags |-> {}]
    /\ unpack_call = <<>>

\* a file of the delivered directory written at time 0
DiskFile(sz, tk) == [exists |-> TRUE, size |-> sz, mtime |-> 0, tar |-> tk]

\* the locals of download_for_record while it is not running
D_NotRunning ==
    /\ d_pc = "idle"
    /\ manifest = NoManifest
    /\ available = <<>>
    /\ selected_kinds = {}
    /\ max_workers = 1
    /\ to_fetch = <<>>
    /\ tasks = <<>>
    /\ d_before = NoManifest
    /\ d_disk = [fn \in Filenames |-> Absent]
    /\ unpack_call = <<>>

\* the keyword arguments of unpack_mous_delivered; recursive stands for
\* recursive_unpack_enabled with a pattern list that is not empty
UnpackFlags ==
    [unpack_auxiliary : BOOLEAN, unpack_readme_archives : {TRUE},
     unpack_weblog_archives : BOOLEAN, unpack_other_archives : BOOLEAN,
     remove_archives_after_unpack : BOOLEAN, recursive : BOOLEAN]

\* the calls that leave the flags of the weblog and the other archives at
\* their defaults (config.py lines 60-61)
StageFlags ==
    { f \in UnpackFlags : f.unpack_weblog_archives /\ ~f.unpack_other_archives }

\* the listings the stages of one unit see: the service answers every
\* invocation with the same rows
StageListings ==
    { <<Artifact(AuxName, 1)>>,
      <<Artifact(AuxName, NoSize), Artifact(CalName, 1)>> }

\* a unit that no stage has run on: no manifest, and a delivered directory
\* that is empty or holds an archive of an earlier run
P_Init ==
    /\ now = 0
    /\ runs = 0
    /\ disk \in { [fn \in Filenames |-> IF fn = AuxName THEN f ELSE Absent] :
                    f \in {Absent, DiskFile(1, "ok"), DiskFile(2, "bad")} }
    /\ manifest_file = NoManifest
    /\ D_NotRunning
    /\ \E l \in StageListings :
          lim = [runs |-> MaxRuns, listings |-> {l}, workers |-> {MaxWorkers},
                 tars |-> {"ok", "bad", "no"}, clock |-> MaxClock,
                 flags |-> StageFlags]

\* an entry of a manifest written at time 0
Entry(fn, sz, st, err, rem, unp) ==
    [filename |-> fn, kind |-> KindOf(fn), size_bytes |-> sz, status |-> st, error |-> err,
     updated_at |-> 0, removed |-> rem, unpacked_to |-> unp, unpack_errors |-> 0]

\* what earlier runs of the stages can have left of a file, as the pair of
\* its entries and its file: nothing, a landed file, a failed transfer; for
\* the archive also a file without an entry, a landed file deleted since,
\* an archive unpacked and kept, an archive unpacked and removed (and put
\* back since)
InitialUnits(fn) ==
    LET tk == IF IsArchive(fn) THEN "ok" ELSE "no"
    IN { <<<<>>, Absent>>,
         <<<<Entry(fn, 1, "present", None, "False", None)>>, DiskFile(1, tk)>>,
         <<<<Entry(fn, NoSize, "error", "HTTPError 500", "False", None)>>, Absent>> }
       \cup (IF IsArchive(fn)
             THEN { <<<<>>, DiskFile(1, tk)>>,
                    <<<<>>, DiskFile(2, tk)>>,
                    <<<<Entry(fn, 1, "present", None, "False", None)>>, Absent>>,
                    <<<<Entry(fn, 1, "present", None, "False", "delivered")>>, DiskFile(1, tk)>>,
                    <<<<Entry(fn, 1, "present", None, "True", "delivered")>>, Absent>>,
                    <<<<Entry(fn, 1, "present", None, "True", "delivered")>>, DiskFile(2, tk)>> }
             ELSE {})

\* the manifest and the delivered directory made of the units of the files
UnitState(ua, uc) ==
    /\ disk = [fn \in Filenames |-> IF fn = AuxName THEN ua[2]
                                    ELSE IF fn = CalName THEN uc[2] ELSE Absent]
    /\ manifest_file = IF ua[1] \o uc[1] = <<>> THEN NoManifest
                       ELSE [exists |-> TRUE, artifacts |-> ua[1] \o uc[1],
                             history |-> <<"download">>,
                             unpacked |-> [fn \in Filenames |-> NoStamp],
                             updated_at |-> 0]

\* download_for_record is called once, on a unit in any state earlier runs
\* of the stages can have left; the behaviours go as far as the submission
\* of the transfers
L_Init ==
    /\ now = 0
    /\ runs = 0
    /\ \E ua \in InitialUnits(AuxName), uc \in InitialUnits(CalName) : UnitState(ua, uc)
    /\ D_NotRunning
    /\ lim = [runs |-> 1, listings |-> Listings, workers |-> 1..MaxWorkers,
              tars |-> {"ok", "no"}, clock |-> MaxClock, flags |-> {}]

\* the units whose file has to be fetched: nothing there, a failed transfer,
\* an archive unpacked, kept and deleted since, a file of another size
PoolUnits(fn) ==
    { <<<<>>, Absent>>,
      <<<<Entry(fn, NoSize, "error", "HTTPError 500", "False", None)>>, Absent>> }
    \cup (IF IsArchive(fn)
          THEN { <<<<Entry(fn, 1, "present", None, "False", "delivered")>>, Absent>>,
                 <<<<>>, DiskFile(2, "ok")>> }
          ELSE {})

\* download_for_record is called once and runs its pool of transfers; the
\* whole invocation is over before the clock moves on
D_Init ==
    /\ now = 0
    /\ runs = 0
    /\ \E ua \in PoolUnits(AuxName), uc \in PoolUnits(CalName) : UnitState(ua, uc)
    /\ D_NotRunning
    /\ lim = [runs |-> 1, listings |-> Listings, workers |-> 1..MaxWorkers,
              tars |-> {"ok", "no"}, clock |-> 0, flags |-> {}]

\* listings in which the archive service names one file twice
DuplicateListings == { l \in Listings : Len(l) = 2 /\ l[1].filename = l[2].filename }

\* download and unpack invocations follow each other on one unit while the
\* service keeps naming a file twice
R_Init ==
    /\ now = 0
    /\ runs = 0
    /\ \E ua \in PoolUnits(AuxName), uc \in PoolUnits(CalName) : UnitState(ua, uc)
    /\ D_NotRunning
    /\ lim = [runs |-> MaxRepeat, listings |-> DuplicateListings, workers |-> {MaxWorkers},
              tars |-> {"ok", "no"}, clock |-> 0, flags |-> StageFlags]

\* a file of the delivered directory written at time t
DiskFileAt(sz, tk, t) == [exists |-> TRUE, size |-> sz, mtime |-> t, tar |-> tk]

\* what the download stage and an earlier unpack can have left of an archive,
\* as its entries, its file and its stamp in the manifest's "unpacked":
\* nothing, the archive as downloaded (readable, not a tar file, or clashing
\* with the directory; written early or late), the archive unpacked and
\* kept, and the archive unpacked, kept and replaced since by one of another
\* size or another time
UnpackUnits(fn) ==
    LET fresh == <<Entry(fn, 1, "present", None, "False", None)>>
        kept == <<Entry(fn, 1, "present", None, "False", "delivered")>>
    IN { <<<<>>, Absent, NoStamp>>,
         <<fresh, DiskFile(1, "ok"), NoStamp>>,
         <<fresh, DiskFileAt(1, "ok", MaxClock), NoStamp>>,
         <<fresh, DiskFile(1, "bad"), NoStamp>>,
         <<fresh, DiskFile(1, "clash"), NoStamp>>,
         <<kept, DiskFile(1, "ok"), <<1, 0>> >>,
         <<kept, DiskFile(2, "ok"), <<1, 0>> >>,
         <<kept, DiskFileAt(1, "ok", MaxClock), <<1, 0>> >> }

\* the units of the archives that accompany the auxiliary archive
FreshUnits(fn) == { u \in UnpackUnits(fn) : u[3] = NoStamp /\ u[2].tar \in {"no", "ok"} }
PlainUnits(fn) == { u \in UnpackUnits(fn) : u[3] = NoStamp /\ u[2].mtime = 0
                                            /\ u[2].tar \in {"no", "ok", "bad"} }

\* unpack_mous_delivered is called, with any flags, on a unit the download
\* stage has filled
U_Init ==
    /\ now = MaxClock
    /\ runs = 0
    /\ \E ua \in UnpackUnits(AuxName), us \in FreshUnits(SecondName),
          uw \in PlainUnits(WeblogName), ut \in FreshUnits(TablesName) :
          LET unit == [fn \in Filenames |->
                          CASE fn = AuxName -> ua
                            [] fn = SecondName -> us
                            [] fn = WeblogName -> uw
                            [] fn = TablesName -> ut
                            [] OTHER -> <<<<>>, Absent, NoStamp>>]
          IN /\ disk = [fn \in Filenames |-> unit[fn][2]]
             /\ manifest_file = [exists |-> TRUE,
                                 artifacts |-> ua[1] \o us[1] \o uw[1] \o ut[1],
                                 history |-> <<"download">>,
                                 unpacked |-> [fn \in Filenames |-> unit[fn][3]],
                                 updated_at |-> 0]
    /\ D_NotRunning
    /\ lim = [runs |-> MaxRepeat, listings |-> {}, workers |-> {}, tars |-> {},
              clock |-> MaxClock, flags |-> UnpackFlags]

P_Frame == UNCHANGED <<x_vars, t_vars, n_vars, i_vars, c_vars>>

\* the clock does not run backwards: what a later call of now_utc_iso() or
\* a later write of a file can see
Clock == now..lim.clock

\* download_for_record, lines 351-390
DownloadStart ==
    /\ d_pc = "idle"
    /\ runs < lim.runs
    /\ now' \in Clock
    /\ \E listing \in lim.listings, sel \in Selections, mw \in lim.workers :
          LET m == ReadManifest(now')
              r == FirstLoop(m.artifacts, <<>>, listing, sel, now')
          IN /\ available' = listing
             /\ selected_kinds' = sel
             /\ max_workers' = mw
             /\ manifest' = [m EXCEPT !.artifacts = r.artifacts]
             /\ to_fetch' = r.to_fetch
    /\ tasks' = <<>>
    /\ d_pc' = "looped"
    /\ d_before' = manifest_file
    /\ d_disk' = disk
    /\ runs' = runs + 1
    /\ UNCHANGED <<disk, manifest_file, lim, unpack_call>>
    /\ P_Frame

\* lines 392-402
DownloadNothingMissing ==
    /\ d_pc = "looped"
    /\ to_fetch = <<>>
    /\ now' \in Clock
    /\ LET m == SaveManifest([manifest EXCEPT !.history = Append(@, "download: no missing")],
                             now')
       IN /\ manifest' = m
          /\ manifest_file' = m
    /\ d_pc' = "returned"
    /\ UNCHANGED <<runs, disk, available, selected_kinds, max_workers, to_fetch, tasks,
                   d_before, d_disk, lim, unpack_call>>
    /\ P_Frame

\* lines 404-420: every artifact of to_fetch is submitted to the pool
DownloadSubmit ==
    /\ d_pc = "looped"
    /\ to_fetch # <<>>
    /\ tasks' = [i \in 1..Len(to_fetch) |-> NewTask(to_fetch[i])]
    /\ d_pc' = "pool"
    /\ UNCHANGED <<now, runs, disk, manifest_file, manifest, available, selected_kinds,
                   max_workers, to_fetch, d_before, d_disk, lim, unpack_call>>
    /\ P_Frame

\* a worker of the pool (max(1, max_workers) of them) takes the next queued task
TaskStart(i) ==
    /\ d_pc \in {"pool", "unwinding"}
    /\ tasks[i].state = "queued"
    /\ \A j \in 1..(i - 1) : tasks[j].state # "queued"
    /\ Cardinality(Running) < max_workers
    /\ LET same == { j \in Running : tasks[j].art.filename = tasks[i].art.filename }
       IN tasks' = [j \in 1..Len(tasks) |->
                       IF j = i THEN [tasks[j] EXCEPT !.state = "running", !.raced = same # {}]
                       ELSE IF j \in same THEN [tasks[j] EXCEPT !.raced = TRUE]
                       ELSE tasks[j]]
    /\ UNCHANGED <<now, runs, disk, manifest_file, d_pc, manifest, available, selected_kinds,
                   max_workers, to_fetch, d_before, d_disk, lim, unpack_call>>
    /\ P_Frame

\* _download_one returns ("ok", None, size): the file is at its final path
TaskOk(i) ==
    /\ d_pc \in {"pool", "unwinding"}
    /\ tasks[i].state = "running"
    /\ now' \in Clock
    /\ \E sz \in Sizes, tk \in TarKinds(tasks[i].art.filename) \cap lim.tars :
          /\ tasks[i].raced \/ tasks[i].art.size_bytes \in {NoSize, sz}
          /\ disk' = [disk EXCEPT ![tasks[i].art.filename] =
                         [exists |-> TRUE, size |-> sz, mtime |-> now', tar |-> tk]]
          /\ tasks' = [j \in 1..Len(tasks) |->
                          IF j = i
                          THEN [tasks[j] EXCEPT !.state = "done", !.status = "ok", !.size = sz]
                          ELSE IF j \in Running
                                  /\ tasks[j].art.filename = tasks[i].art.filename
                          THEN [tasks[j] EXCEPT !.renamed = TRUE]
                          ELSE tasks[j]]
    /\ UNCHANGED <<runs, manifest_file, d_pc, manifest, available, selected_kinds,
                   max_workers, to_fetch, d_before, d_disk, lim, unpack_call>>
    /\ P_Frame

\* _download_one returns ("error", message, None): its retries are used up
TaskError(i) ==
    /\ d_pc \in {"pool", "unwinding"}
    /\ tasks[i].state = "running"
    /\ \E msg \in ErrorMessages :
          tasks' = [tasks EXCEPT ![i] = [@ EXCEPT !.state = "done", !.status = "error",
                                                  !.error = msg]]
    /\ UNCHANGED <<now, runs, disk, manifest_file, d_pc, manifest, available, selected_kinds,
                   max_workers, to_fetch, d_before, d_disk, lim, unpack_call>>
    /\ P_Frame

\* line 292 is outside the try block: temp_path.stat() raises when another
\* task working on the same .part renamed it between exists() and stat()
TaskRaise(i) ==
    /\ d_pc \in {"pool", "unwinding"}
    /\ tasks[i].state = "running"
    /\ tasks[i].renamed
    /\ tasks' = [tasks EXCEPT ![i] = [@ EXCEPT !.state = "done", !.status = "raised",
                                               !.error = "FileNotFoundError"]]
    /\ UNCHANGED <<now, runs, disk, manifest_file, d_pc, manifest, available, selected_kinds,
                   max_workers, to_fetch, d_before, d_disk, lim, unpack_call>>
    /\ P_Frame

\* lines 422-445: as_completed hands over a finished future
Collect(i) ==
    /\ d_pc = "pool"
    /\ tasks[i].state = "done" /\ ~tasks[i].collected
    /\ tasks' = [tasks EXCEPT ![i] = [@ EXCEPT !.collected = TRUE]]
    /\ IF tasks[i].status = "raised"
       THEN \* fut.result() raises: the with block is left, which waits for the pool
            /\ d_pc' = "unwinding"
            /\ manifest' = manifest
            /\ now' = now
       ELSE /\ d_pc' = d_pc
            /\ now' \in Clock
            /\ manifest' = [manifest EXCEPT
                               !.artifacts = ApplyPayload(@, tasks[i].art, tasks[i], now')]
    /\ UNCHANGED <<runs, disk, manifest_file, available, selected_kinds, max_workers,
                   to_fetch, d_before, d_disk, lim, unpack_call>>
    /\ P_Frame

\* lines 447-456: after the with block
DownloadSave ==
    /\ d_pc = "pool"
    /\ PoolDrained
    /\ now' \in Clock
    /\ LET m == SaveManifest([manifest EXCEPT !.history = Append(@, "download")], now')
       IN /\ manifest' = m
          /\ manifest_file' = m
    /\ d_pc' = "returned"
    /\ UNCHANGED <<runs, disk, available, selected_kinds, max_workers, to_fetch, tasks,
                   d_before, d_disk, lim, unpack_call>>
    /\ P_Frame

\* the exception of fut.result() leaves download_for_record once the pool
\* has shut down (ThreadPoolExecutor.__exit__ waits for every task)
DownloadAbort ==
    /\ d_pc = "unwinding"
    /\ \A i \in 1..Len(tasks) : tasks[i].state = "done"
    /\ d_pc' = "raised"
    /\ UNCHANGED <<now, runs, disk, manifest_file, manifest, available, selected_kinds,
                   max_workers, to_fetch, tasks, d_before, d_disk, lim, unpack_call>>
    /\ P_Frame

\* download_for_record is over (line 402, line 456, or the exception): its
\* locals are gone
DownloadEnd ==
    /\ d_pc \in {"returned", "raised"}
    /\ d_pc' = "idle"
    /\ manifest' = NoManifest
    /\ available' = <<>>
    /\ selected_kinds' = {}
    /\ max_workers' = 1
    /\ to_fetch' = <<>>
    /\ tasks' = <<>>
    /\ d_before' = NoManifest
    /\ d_disk' = [fn \in Filenames |-> Absent]
    /\ UNCHANGED <<now, runs, disk, manifest_file, lim, unpack_call>>
    /\ P_Frame

\* unpack.py _select_archives_for_unpack, lines 163-171
KindEnabled(kind, flags) ==
    /\ kind = "auxiliary" => flags.unpack_auxiliary
    /\ kind = "readme" => flags.unpack_readme_archives
    /\ kind = "weblog" => flags.unpack_weblog_archives
    /\ kind \notin {"auxiliary", "readme", "weblog"} => flags.unpack_other_archives

\* _select_archives_for_unpack, lines 158-172
Candidates(arts, dsk, flags) ==
    { i \in 1..Len(arts) : /\ dsk[arts[i].filename].exists
                           /\ IsArchive(arts[i].filename)
                           /\ KindEnabled(arts[i].kind, flags) }

\* a selection that takes the first archive of a kind, whatever its time
NewestIsFirst(arts, dsk, group) == SetMin(group)

\* _select_archives_for_unpack, line 182: max() keeps the first of equal keys
Newest(arts, dsk, group) ==
    SetMin({ i \in group :
               \A j \in group : dsk[arts[j].filename].mtime <= dsk[arts[i].filename].mtime })

\* the numbers of a set in ascending order
RECURSIVE Ascending(_)
Ascending(S) == IF S = {} THEN <<>> ELSE <<SetMin(S)>> \o Ascending(S \ {SetMin(S)})

\* _select_archives_for_unpack, lines 183-194: the records of the members
\* of a group that are not its newest
SkippedOf(arts, group, newest) ==
    LET idx == Ascending(group \ {newest})
    IN [k \in 1..Len(idx) |->
           [kind |-> arts[idx[k]].kind, filename |-> arts[idx[k]].filename,
            reason |-> "older archive version for same kind"]]

\* _select_archives_for_unpack, lines 174-196: one selected entry per kind,
\* the kinds in the order in which they first appear among the candidates
RECURSIVE SelectArchivesForUnpack(_, _, _, _)
SelectArchivesForUnpack(arts, dsk, cands, i) ==
    IF i > Len(arts) THEN [selected |-> <<>>, skipped |-> <<>>]
    ELSE LET rest == SelectArchivesForUnpack(arts, dsk, cands, i + 1)
             group == { j \in cands : arts[j].kind = arts[i].kind }
             newest == Newest(arts, dsk, group)
         IN IF i \in cands /\ i = SetMin(group)
            THEN [selected |-> <<newest>> \o rest.selected,
                  skipped |-> SkippedOf(arts, group, newest) \o rest.skipped]
            ELSE rest

\* unpack_mous_delivered, lines 303-368, for the selected entry idx; main
\* lists what the loop did with each selected archive
UnpackOne(st, idx, flags) ==
    LET fn == st.artifacts[idx].filename
        f == st.disk[fn]
        stamp == <<f.size, f.mtime>>
        did(what) == Append(st.main, [filename |-> fn, outcome |-> what])
    IN IF ~f.exists THEN [st EXCEPT !.main = did("missing")]
       ELSE IF st.unpacked[fn] = stamp THEN [st EXCEPT !.main = did("unchanged")]
       ELSE IF f.tar # "ok"
       THEN [st EXCEPT !.artifacts[idx].unpack_errors = @ + 1, !.main = did("failed")]
       ELSE [st EXCEPT
                !.artifacts[idx].unpacked_to = "delivered",
                !.unpacked[fn] = stamp,
                !.artifacts[idx].removed =
                    IF flags.remove_archives_after_unpack THEN "True" ELSE "False",
                !.disk[fn] = IF flags.remove_archives_after_unpack THEN Absent ELSE @,
                !.main = did(IF flags.remove_archives_after_unpack
                             THEN "extracted and removed" ELSE "extracted")]

\* lines 302-368: the loop over the selected archives
RECURSIVE UnpackLoop(_, _, _, _)
UnpackLoop(st, selected, k, flags) ==
    IF k > Len(selected) THEN st
    ELSE UnpackLoop(UnpackOne(st, selected[k], flags), selected, k + 1, flags)

\* unpack.py _recursive_unpack on a delivered directory whose archives hold
\* no archives: the first pass takes every archive with a matching name, the
\* second finds nothing left
RecursiveUnpack(dsk, flags) ==
    LET candidates == IF flags.recursive
                      THEN { fn \in Filenames : /\ dsk[fn].exists
                                                /\ IsArchive(fn)
                                                /\ MatchesAnyPattern(fn) }
                      ELSE {}
        unpacked == { fn \in candidates : dsk[fn].tar \in {"ok", "clash"} }
    IN [disk |-> [fn \in Filenames |->
                     IF fn \in unpacked /\ flags.remove_archives_after_unpack
                     THEN Absent ELSE dsk[fn]],
        unpacked |-> unpacked,
        failed |-> candidates \ unpacked]

\* unpack_mous_delivered, called for a unit that has a manifest (cli.py
\* lines 316-319)
UnpackRun ==
    /\ d_pc = "idle"
    /\ runs < lim.runs
    /\ manifest_file.exists
    /\ \E flags \in lim.flags :
          LET arts == manifest_file.artifacts
              sel == SelectArchivesForUnpack(arts, disk, Candidates(arts, disk, flags), 1)
              st0 == [artifacts |-> arts, unpacked |-> manifest_file.unpacked,
                      disk |-> disk, main |-> <<>>]
              st == UnpackLoop(st0, sel.selected, 1, flags)
              rec == RecursiveUnpack(st.disk, flags)
          IN /\ disk' = rec.disk
             /\ manifest_file' = [manifest_file EXCEPT
                                     !.artifacts = st.artifacts,
                                     !.unpacked = st.unpacked,
                                     !.history = Append(@, "unpack")]
             /\ unpack_call' = << [flags |-> flags,
                                   selected |-> [k \in 1..Len(sel.selected) |->
                                                    arts[sel.selected[k]].filename],
                                   skipped |-> sel.skipped,
                                   main |-> st.main,
                                   recursive |-> [unpacked |-> rec.unpacked,
                                                  failed |-> rec.failed]] >>
    /\ d_pc' = "unpacked"
    /\ d_before' = manifest_file
    /\ d_disk' = disk
    /\ runs' = runs + 1
    /\ UNCHANGED <<now, manifest, available, selected_kinds, max_workers, to_fetch,
                   tasks, lim>>
    /\ P_Frame

\* unpack_mous_delivered has returned: its locals are gone
UnpackEnd ==
    /\ d_pc = "unpacked"
    /\ d_pc' = "idle"
    /\ d_before' = NoManifest
    /\ d_disk' = [fn \in Filenames |-> Absent]
    /\ unpack_call' = <<>>
    /\ UNCHANGED <<now, runs, disk, manifest_file, manifest, available, selected_kinds,
                   max_workers, to_fetch, tasks, lim>>
    /\ P_Frame

(***************************************************************************)
(* unpack.py _recursive_unpack on a delivered directory of nested          *)
(* archives.  The archive paths are numbered in the order of sorted().     *)
(* An archive is in the directory from the start (parent 0) or is a member *)
(* of another archive and appears when that one is extracted.              *)
(***************************************************************************)
MaxArchives == 3
MaxPasses == 3

ArchivePaths == 1..MaxArchives

\* what tarfile.open and _safe_extract make of an archive: "ok", "bad"
\* (tarfile.open raises), "partial" (_safe_extract raises after it has
\* written the members that are archives)
NestedTarKinds == {"ok", "bad", "partial"}

\* a path is the sequence of its words: the words of one component are
\* joined by dots (an extension is one word), and SLASH stands between two
\* components
SLASH == "/"

\* the directories a delivered archive can lie in: one whose path holds
\* none of the words of the patterns, and one whose path holds "weblog"
CalibrationDir == "calibration"
WeblogDir == "weblog"
ArchiveDirs == {CalibrationDir, WeblogDir}

\* the names of the nested archives: auxiliary products, calibration
\* tables, a plain file name and a flag-version bundle
AuxProductsName == <<"m", "auxproducts", "tgz">>
CalTablesName == <<"m", "caltables", "tgz">>
BareCalTablesName == <<"caltables", "tgz">>
FlagVersionsName == <<"u", "ms", "flagversions", "tgz">>
ArchiveNames == {AuxProductsName, CalTablesName, BareCalTablesName, FlagVersionsName}

\* DEFAULT_RECURSIVE_UNPACK_PATTERNS, lines 14-27: "*.word.ext" (suffix)
\* and "*word*.ext" (infix)
Extensions == {"tgz", "tar.gz", "tar"}
DefaultPatterns ==
    [form : {"suffix"}, word : {"auxproducts", "caltables"}, ext : Extensions]
        \cup [form : {"infix"}, word : {"weblog", "readme"}, ext : Extensions]

\* path.as_posix(): the directory, a slash and the name
AsPosix(dir, name) == <<dir, SLASH>> \o name

\* fnmatch.fnmatch on a string of words: "*" matches any text, slashes
\* included, so "*.word.ext" asks for a string that ends in a dot, the word
\* and the extension, and "*word*.ext" for the word anywhere before the
\* extension
FnMatch(str, pattern) ==
    /\ str # <<>>
    /\ str[Len(str)] = pattern.ext
    /\ IF pattern.form = "suffix"
       THEN /\ Len(str) >= 3
            /\ str[Len(str) - 1] = pattern.word
            /\ str[Len(str) - 2] # SLASH
       ELSE \E j \in 1..(Len(str) - 1) : str[j] = pattern.word

\* _matches_any_pattern, lines 199-212: the name and the whole path are
\* both compared with every pattern
PathMatchesAnyPattern(dir, name, patterns) ==
    \E pattern \in patterns :
        FnMatch(name, pattern) \/ FnMatch(AsPosix(dir, name), pattern)

\* the patterns of a call
PatternsOf(pat) == IF pat = "default" THEN DefaultPatterns ELSE {}

\* the shapes of the trees: an archive lies in the directory or in an
\* archive of a smaller number
TreeShapes(tars, folders, names) ==
    { t \in [ArchivePaths -> [state : {"hidden", "present"}, parent : 0..MaxArchives,
                              tar : tars, dir : folders, name : names]] :
        \A a \in ArchivePaths :
            /\ t[a].parent < a
            /\ (t[a].state = "present") <=> (t[a].parent = 0) }

\* the trees of archives that all match a pattern
Trees == TreeShapes(NestedTarKinds, {CalibrationDir}, {AuxProductsName})

N_Idle ==
    /\ tree = <<>>
    /\ nested = [pc |-> "off"]

\* _recursive_unpack is called: lines 222-231
N_Init ==
    /\ tree \in Trees
    /\ \E mp \in 0..MaxPasses, pat \in {"default", "none"}, rm \in BOOLEAN :
          nested = [pc |-> "called", patterns |-> pat, max_passes |-> mp,
                    remove_archives_after_unpack |-> rm,
                    pass_idx |-> 0, processed |-> {}, candidates |-> <<>>,
                    pass_info |-> [archives |-> <<>>, errors |-> <<>>],
                    passes |-> <<>>, unpacked_count |-> 0, error_count |-> 0,
                    scans |-> 0,
                    attempts |-> [a \in ArchivePaths |-> <<>>],
                    revealed |-> [a \in ArchivePaths |-> 0]]

\* _recursive_unpack is called with the default patterns or with none, and
\* with the default number of passes (config.py line 78), on archives of
\* every name in every directory
G_Init ==
    /\ tree \in TreeShapes({"ok"}, ArchiveDirs, ArchiveNames)
    /\ \E pat \in {"default", "none"}, rm \in BOOLEAN :
          nested = [pc |-> "called", patterns |-> pat, max_passes |-> MaxPasses,
                    remove_archives_after_unpack |-> rm,
                    pass_idx |-> 0, processed |-> {}, candidates |-> <<>>,
                    pass_info |-> [archives |-> <<>>, errors |-> <<>>],
                    passes |-> <<>>, unpacked_count |-> 0, error_count |-> 0,
                    scans |-> 0,
                    attempts |-> [a \in ArchivePaths |-> <<>>],
                    revealed |-> [a \in ArchivePaths |-> 0]]

N_Frame == UNCHANGED <<x_vars, t_vars, p_vars, i_vars, c_vars>>

\* a loop of one pass more
PassLimitLoose(max_passes) == (IF max_passes > 1 THEN max_passes ELSE 1) + 1

\* line 233: range(max(1, max_passes))
PassLimit(max_passes) == IF max_passes > 1 THEN max_passes ELSE 1

\* a run that remembers no path
ProcessedNever(a, processed) == FALSE

\* line 242: the paths that a pass leaves out
Processed(a, processed) == a \in processed

\* lines 234-244: the archives of the directory that were not processed, sorted
ScanCandidates(t, patterns, processed) ==
    Ascending({ a \in ArchivePaths :
                  /\ t[a].state = "present"
                  /\ PathMatchesAnyPattern(t[a].dir, t[a].name, patterns)
                  /\ ~Processed(a, processed) })

\* lines 229-230: without patterns the function returns at once
ReturnNoPatterns ==
    /\ nested.pc = "called"
    /\ nested.patterns = "none"
    /\ nested' = [nested EXCEPT !.pc = "returned"]
    /\ UNCHANGED tree
    /\ N_Frame

\* lines 232-253: a pass begins with a scan of the directory; the loop ends
\* when the scan finds nothing
ScanPass ==
    /\ \/ nested.pc = "called" /\ nested.patterns # "none"
       \/ nested.pc = "scan"
    /\ nested.pass_idx < PassLimit(nested.max_passes)
    /\ LET candidates == ScanCandidates(tree, PatternsOf(nested.patterns), nested.processed)
       IN nested' = [nested EXCEPT
                        !.scans = @ + 1,
                        !.candidates = candidates,
                        !.pass_info = [archives |-> <<>>, errors |-> <<>>],
                        !.pc = IF candidates = <<>> THEN "returned" ELSE "pass"]
    /\ UNCHANGED tree
    /\ N_Frame

\* line 233: the range is exhausted
PassesExhausted ==
    /\ nested.pc = "scan"
    /\ nested.pass_idx >= PassLimit(nested.max_passes)
    /\ nested' = [nested EXCEPT !.pc = "returned"]
    /\ UNCHANGED tree
    /\ N_Frame

\* lines 255-270: the next candidate of the pass
ExtractNested ==
    /\ nested.pc = "pass"
    /\ nested.candidates # <<>>
    /\ LET a == Head(nested.candidates)
           shown == IF tree[a].tar = "bad" THEN {}
                    ELSE { b \in ArchivePaths : tree[b].parent = a }
           ok == tree[a].tar = "ok"
       IN /\ tree' = [b \in ArchivePaths |->
                         IF b \in shown /\ tree[b].state = "hidden"
                         THEN [tree[b] EXCEPT !.state = "present"]
                         ELSE IF b = a /\ ok /\ nested.remove_archives_after_unpack
                         THEN [tree[b] EXCEPT !.state = "removed"]
                         ELSE tree[b]]
          /\ nested' = [nested EXCEPT
                           !.candidates = Tail(@),
                           !.processed = @ \cup {a},
                           !.unpacked_count = IF ok THEN @ + 1 ELSE @,
                           !.error_count = IF ok THEN @ ELSE @ + 1,
                           !.pass_info.archives = IF ok THEN Append(@, a) ELSE @,
                           !.pass_info.errors = IF ok THEN @ ELSE Append(@, a),
                           !.attempts[a] = Append(@, nested.pass_idx + 1),
                           !.revealed = [b \in ArchivePaths |->
                                            IF b \in shown /\ tree[b].state = "hidden"
                                            THEN nested.pass_idx + 1
                                            ELSE nested.revealed[b]]]
    /\ N_Frame

\* line 272: the pass is recorded, and the loop goes on
EndPass ==
    /\ nested.pc = "pass"
    /\ nested.candidates = <<>>
    /\ nested' = [nested EXCEPT
                     !.passes = Append(@, [pass |-> nested.pass_idx + 1,
                                           archives |-> nested.pass_info.archives,
                                           errors |-> nested.pass_info.errors]),
                     !.pass_idx = @ + 1,
                     !.pc = "scan"]
    /\ UNCHANGED tree
    /\ N_Frame

N_Next ==
    \/ ReturnNoPatterns
    \/ ScanPass
    \/ PassesExhausted
    \/ ExtractNested
    \/ EndPass

(***************************************************************************)
(* index_db.py: the index store.  A store holds the tables mous, eb and    *)
(* artifact.  The values of a summary or a manifest are Python values: a   *)
(* value is the pair of its type and its text.                             *)
(***************************************************************************)
PyNone == <<"none", "">>
PyTrue == <<"bool", "True">>
PyFalse == <<"bool", "False">>
PyStr(text) == <<"str", text>>
PyInt(text) == <<"int", text>>
PyEmptyDict == <<"dict", "">>
PyDict(text) == <<"dict", text>>

\* bool(value): None, False, 0, "" and {} are false
Truthy(value) == value \notin {PyNone, PyFalse, PyInt("0"), PyStr(""), PyEmptyDict}

\* a or b
Or(a, b) == IF Truthy(a) THEN a ELSE b

\* str(value).strip().upper(), line 34, on the texts of the model
StripUpper(text) ==
    CASE text \in {"t", " T "} -> "T"
      [] text \in {"true", "True"} -> "TRUE"
      [] text = "f" -> "F"
      [] text \in {"false", "False"} -> "FALSE"
      [] text = "pass" -> "PASS"
      [] text = "fail" -> "FAIL"
      [] text = " " -> ""
      [] OTHER -> text

\* _qa_status_text, lines 29-43
QaStatusText(value) ==
    IF value = PyNone THEN PyNone
    ELSE IF value[1] = "bool" THEN (IF value = PyTrue THEN PyStr("PASS") ELSE PyStr("FAIL"))
    ELSE LET text == StripUpper(value[2])
         IN IF text = "" THEN PyNone
            ELSE IF text \in {"TRUE", "T", "1"} THEN PyStr("PASS")
            ELSE IF text \in {"FALSE", "F", "0"} THEN PyStr("FAIL")
            ELSE PyStr(text)

\* the units and the execution blocks of the model
Units == {"u1", "u2"}
EbUids == {"e1", "e2"}
IndexFiles == <<"a.tgz", "b.tgz">>

\* the text of the error a download left in the entry of a file
ErrorOf(filename) == IF filename = IndexFiles[1] THEN "timeout" ELSE "refused"

\* the artifacts of a manifest as the index reads them: status and error
\* message; an artifact in error may carry no message
IndexArtifactsOf(filename) ==
    { [filename |-> filename, status |-> "present", error |-> PyNone],
      [filename |-> filename, status |-> "error", error |-> PyStr(ErrorOf(filename))],
      [filename |-> filename, status |-> "error", error |-> PyNone] }

\* the artifact lists of a manifest: each file at most once, in one order
IndexArtifactLists ==
    {<<>>}
        \cup { <<a>> : a \in IndexArtifactsOf(IndexFiles[1]) \cup IndexArtifactsOf(IndexFiles[2]) }
        \cup { <<a, b>> : a \in IndexArtifactsOf(IndexFiles[1]), b \in IndexArtifactsOf(IndexFiles[2]) }

\* a summary without a key, and a manifest without a key
EmptySummary ==
    [empty |-> TRUE, mous_uid |-> PyNone, mous |-> PyNone, project_code |-> PyNone,
     qa2_status |-> PyNone, qa |-> PyNone, eb_uid_list |-> <<>>]

EmptyManifest ==
    [mous_uid |-> PyNone, project_code |-> PyNone, qa2_status |-> PyNone,
     qa2_passed |-> PyNone, artifacts |-> <<>>, unpacked |-> PyNone, eb_uids |-> <<>>]

\* cli.py _upsert_from_manifest_only, lines 221-235: the summary that is made
\* of the manifest
SummaryFromManifest(m) ==
    [empty |-> FALSE, mous_uid |-> m.mous_uid, mous |-> PyNone,
     project_code |-> m.project_code, qa2_status |-> m.qa2_passed, qa |-> PyNone,
     eb_uid_list |-> <<>>]

\* ingest_summary_file, line 316: the summary read from the file, or {}, is
\* given its path
WithSummaryPath(s) == [s EXCEPT !.empty = FALSE]

\* line 162: the unit of the call
ResolveUid(s, m) == Or(Or(s.mous_uid, s.mous), m.mous_uid)

\* lines 171-175: the summary's status before the manifest's
Qa2Status(s, m) ==
    LET first == QaStatusText(Or(s.qa2_status, s.qa))
        second == IF first = PyNone THEN QaStatusText(m.qa2_status) ELSE first
    IN IF second = PyNone THEN QaStatusText(m.qa2_passed) ELSE second

\* line 191
Downloaded(artifacts) ==
    IF \E i \in 1..Len(artifacts) : artifacts[i].status = "present" THEN 1 ELSE 0

\* line 192
Unpacked(m) == IF Truthy(m.unpacked) THEN 1 ELSE 0

\* line 193
Summarized(s) == IF s.empty THEN 0 ELSE 1

\* the artifacts in error, by their place in the manifest
ErrorPlaces(artifacts) == { i \in 1..Len(artifacts) : artifacts[i].status = "error" }

\* a loop that stops at the last artifact in error
LastErrorPlace(artifacts) == CHOOSE i \in ErrorPlaces(artifacts) : \A j \in ErrorPlaces(artifacts) : j <= i

\* lines 198-202: the loop stops at the first artifact in error
FirstErrorPlace(artifacts) == CHOOSE i \in ErrorPlaces(artifacts) : \A j \in ErrorPlaces(artifacts) : i <= j

\* lines 197-202: the last error of the row, [stage, message]
LastError(stage, message, artifacts) ==
    IF (~Truthy(stage) \/ ~Truthy(message)) /\ ErrorPlaces(artifacts) # {}
    THEN [stage |-> PyStr("download"),
          message |-> Or(artifacts[FirstErrorPlace(artifacts)].error,
                         PyStr("artifact download failed"))]
    ELSE [stage |-> stage, message |-> message]

\* init_db, lines 93-147: the three tables, empty
EmptyStore == [mous |-> {}, eb |-> {}, artifact |-> {}]

\* lines 241-268: the row of the call.  The columns release_date, obs_date
\* and band_json are computed as project_code is, and last_seen is
\* last_updated
MousRow(uid, s, m, stage, message, shard_id, at) ==
    LET error == LastError(stage, message, m.artifacts)
    IN [mous_uid |-> uid,
        project_code |-> Or(s.project_code, m.project_code),
        qa2_status |-> Qa2Status(s, m),
        downloaded |-> Downloaded(m.artifacts),
        unpacked |-> Unpacked(m),
        summarized |-> Summarized(s),
        last_error_stage |-> error.stage,
        last_error_message |-> error.message,
        shard_id |-> shard_id,
        last_updated |-> at]

\* a statement that leaves the project code of a row it finds
UpsertMousKeeping(table, row) ==
    LET found == { r \in table : r.mous_uid = row.mous_uid }
    IN (table \ found)
           \cup {IF found = {} THEN row
                 ELSE [row EXCEPT !.project_code = (CHOOSE r \in found : TRUE).project_code]}

\* lines 204-240 and 337-373: INSERT INTO mous ... ON CONFLICT(mous_uid) DO
\* UPDATE SET every column
UpsertMous(table, row) == { r \in table : r.mous_uid # row.mous_uid } \cup {row}

\* lines 65-76: the execution blocks of the call
SummaryEbUids(s, m) ==
    LET eb_uids == IF s.eb_uid_list # <<>> THEN s.eb_uid_list ELSE m.eb_uids
    IN { eb_uids[i] : i \in 1..Len(eb_uids) }

\* lines 272-276: INSERT OR REPLACE INTO eb, one statement for each block
InsertEbs(table, uid, eb_uids) == table \cup { <<uid, eb>> : eb \in eb_uids }

\* lines 278-303: INSERT INTO artifact ... ON CONFLICT(mous_uid, filename) DO
\* UPDATE, one statement for each artifact of the manifest
RECURSIVE UpsertArtifacts(_, _, _, _)
UpsertArtifacts(table, uid, artifacts, at) ==
    IF artifacts = <<>> THEN table
    ELSE LET art == Head(artifacts)
             row == [mous_uid |-> uid, filename |-> art.filename, status |-> art.status,
                     updated_at |-> at]
         IN UpsertArtifacts({ r \in table : ~(r.mous_uid = uid /\ r.filename = art.filename) }
                                \cup {row},
                            uid, Tail(artifacts), at)

\* upsert_mous_from_summary, lines 150-304: [raised, tables]
UpsertMousFromSummary(tables, s, m, stage, message, shard_id, at) ==
    LET mous_uid == ResolveUid(s, m)
    IN IF ~Truthy(mous_uid) THEN [raised |-> TRUE, tables |-> tables]
       ELSE [raised |-> FALSE,
             tables |-> [mous |-> UpsertMous(tables.mous,
                                             MousRow(mous_uid[2], s, m, stage, message,
                                                     shard_id, at)),
                         eb |-> InsertEbs(tables.eb, mous_uid[2], SummaryEbUids(s, m)),
                         artifact |-> UpsertArtifacts(tables.artifact, mous_uid[2],
                                                      m.artifacts, at)]]

\* the entry points: the call of cli.py lines 381-387, _upsert_from_manifest_only
\* (cli.py lines 220-246) and ingest_summary_file (lines 307-326);
\* [outcome, tables]
UpsertEntry(tables, c, at) ==
    CASE c.entry = "upsert" ->
             LET r == UpsertMousFromSummary(tables, c.summary, c.manifest, c.last_error_stage,
                                            c.last_error_message, c.shard_id, at)
             IN [outcome |-> IF r.raised THEN "raised" ELSE "returned", tables |-> r.tables]
      [] c.entry = "manifest_only" ->
             LET s == SummaryFromManifest(c.manifest)
             IN IF ~Truthy(s.mous_uid) THEN [outcome |-> "skipped", tables |-> tables]
                ELSE [outcome |-> "returned",
                      tables |-> UpsertMousFromSummary(tables, s, c.manifest, PyNone, PyNone,
                                                       c.shard_id, at).tables]
      [] c.entry = "ingest" ->
             LET s == WithSummaryPath(c.summary)
             IN IF ~(Truthy(s.mous_uid) \/ Truthy(c.manifest.mous_uid))
                THEN [outcome |-> "raised", tables |-> tables]
                ELSE LET r == UpsertMousFromSummary(tables, s, c.manifest, PyNone, PyNone,
                                                    c.shard_id, at)
                     IN [outcome |-> IF r.raised THEN "raised" ELSE "returned",
                         tables |-> r.tables]

MaxCalls == 2
MaxColumnCalls == 1

\* a call of an entry point
Call(entry, s, m, stage, message) ==
    [entry |-> entry, summary |-> s, manifest |-> m, last_error_stage |-> stage,
     last_error_message |-> message, shard_id |-> PyStr("s1")]

Entries == {"upsert", "manifest_only", "ingest"}

\* a summary with keys that name no unit
NamelessSummary == [EmptySummary EXCEPT !.empty = FALSE]

\* the manifest of the first unit with these artifacts and this unpack
\* record
FlagManifest(arts, unpacked) ==
    [EmptyManifest EXCEPT !.mous_uid = PyStr("u1"), !.artifacts = arts, !.unpacked = unpacked]

\* calls for the first unit that differ in the artifacts, in the unpack
\* record of the manifest and in whether there is a summary; a call from
\* the manifest alone has no summary to give
FlagCalls ==
    { Call(entry, s, FlagManifest(arts, unpacked), PyNone, PyNone) :
        entry \in {"upsert", "ingest"}, s \in {EmptySummary, NamelessSummary},
        arts \in IndexArtifactLists,
        unpacked \in {PyNone, PyEmptyDict, PyDict(IndexFiles[1])} }
        \cup { Call("manifest_only", EmptySummary, FlagManifest(arts, unpacked), PyNone, PyNone) :
                 arts \in IndexArtifactLists,
                 unpacked \in {PyNone, PyEmptyDict, PyDict(IndexFiles[1])} }

\* calls for the first unit that differ in the error the caller names
ErrorCalls ==
    { Call("upsert", [NamelessSummary EXCEPT !.mous_uid = PyStr("u1")],
           [EmptyManifest EXCEPT !.artifacts = arts], stage, message) :
        arts \in IndexArtifactLists, stage \in {PyNone, PyStr("unpack")},
        message \in {PyNone, PyStr("bad")} }

\* calls for the first unit that differ in the project code, in the
\* execution blocks and in the artifacts
RowCalls ==
    { Call("upsert",
           [NamelessSummary EXCEPT !.mous_uid = PyStr("u1"), !.project_code = pc[1],
                                   !.eb_uid_list = eb[1]],
           [EmptyManifest EXCEPT !.project_code = pc[2], !.eb_uids = eb[2], !.artifacts = arts],
           PyNone, PyNone) :
        pc \in {<<PyStr("ps"), PyStr("pm")>>, <<PyNone, PyStr("pm")>>, <<PyNone, PyNone>>},
        eb \in {<< <<>>, <<>> >>, << <<"e1">>, <<"e2">> >>, << <<>>, <<"e2">> >>,
                << <<"e1", "e2">>, <<>> >>},
        arts \in { l \in IndexArtifactLists :
                     \A i \in 1..Len(l) : l[i].status = "present" } }

\* calls that differ in where a unit is named, if anywhere
IdCalls ==
    { Call(entry,
           [NamelessSummary EXCEPT !.mous_uid = su, !.mous = sb],
           [EmptyManifest EXCEPT !.mous_uid = mu,
                                 !.artifacts = << [filename |-> IndexFiles[1],
                                                   status |-> "present", error |-> PyNone] >>,
                                 !.eb_uids = <<"e1">>], PyNone, PyNone) :
        entry \in Entries, su \in {PyNone, PyStr("u1"), PyStr("u2")},
        sb \in {PyNone, PyStr("u2")}, mu \in {PyNone, PyStr("u1")} }

IndexCalls == RowCalls \cup IdCalls

\* the forms a QA2 status is given in
QaValues ==
    {PyNone, PyTrue, PyFalse, PyStr("T"), PyStr("true"), PyStr("1"), PyStr("PASS"),
     PyStr("F"), PyStr("FALSE"), PyStr("0"), PyStr("FAIL"), PyStr("")}

\* the forms that two carriers are given in at once
QaCore == {PyNone, PyTrue, PyFalse, PyStr("PASS"), PyStr("FAIL"), PyStr("")}

\* the four carriers of a QA2 status: every form in one carrier, and the
\* core forms in two of them at once
QaCarriers ==
    { q \in [top : QaValues, block : QaValues, status : QaValues, passed : QaValues] :
        LET given == { f \in {"top", "block", "status", "passed"} : q[f] # PyNone }
        IN \/ Cardinality(given) <= 1
           \/ Cardinality(given) = 2 /\ \A f \in given : q[f] \in QaCore }

\* the call for the first unit with the QA2 status in these carriers
QaCall(entry, q) ==
    Call(entry,
         [NamelessSummary EXCEPT !.mous_uid = PyStr("u1"), !.qa2_status = q.top, !.qa = q.block],
         [EmptyManifest EXCEPT !.mous_uid = PyStr("u1"), !.qa2_status = q.status,
                               !.qa2_passed = q.passed], PyNone, PyNone)

\* calls that differ in the QA2 status of the summary, of its qa block and
\* of the manifest; a call from the manifest alone has no summary to give
QaCalls ==
    { QaCall("upsert", q) : q \in QaCarriers }
        \cup { QaCall("manifest_only", q) :
                 q \in { k \in QaCarriers : k.top = PyNone /\ k.block = PyNone } }

\* the calls that differ in what the columns of a row are computed from
ColumnCalls == QaCalls \cup FlagCalls \cup ErrorCalls

I_Idle ==
    /\ store = EmptyStore
    /\ conn = EmptyStore
    /\ store_before = EmptyStore
    /\ upsert_call = <<>>
    /\ merge = [pc |-> "off"]

\* a store that init_db has just made
I_Init ==
    /\ store = EmptyStore
    /\ conn = EmptyStore
    /\ store_before = EmptyStore
    /\ upsert_call = <<>>
    /\ merge = [pc |-> "off"]

I_Frame == UNCHANGED <<x_vars, t_vars, p_vars, n_vars, c_vars>>

\* the calls made so far: now_utc_iso() gives a later time at every call
CallCount == IF upsert_call = <<>> THEN 0 ELSE upsert_call[1].n

\* what becomes of the command that made the call: the loops of cli.py
\* lines 367-391 and 545-566 have no handler, so the ValueError leaves
\* the command and main ends the process (cli.py lines 632-634); the loop
\* of cli.py lines 412-425 and the merge log the error and go on
CommandAfter(entry, outcome) ==
    IF entry = "upsert" /\ outcome = "raised" THEN "aborted" ELSE "running"

\* one call of an entry point on the store, commit included (line 304)
Enter(c, limit) ==
    /\ CallCount < limit
    /\ LET r == UpsertEntry(store, c, CallCount + 1)
       IN /\ store' = r.tables
          /\ conn' = r.tables
          /\ store_before' = store
          /\ upsert_call' = << [call |-> c, outcome |-> r.outcome, n |-> CallCount + 1,
                                 command |-> CommandAfter(c.entry, r.outcome)] >>
    /\ UNCHANGED merge
    /\ I_Frame

\* cli.py lines 381-387 and 556-562: upsert_mous_from_summary is called
Upsert(calls, limit) == \E c \in calls : c.entry = "upsert" /\ Enter(c, limit)

\* cli.py lines 295 and 345: _upsert_from_manifest_only is called
UpsertFromManifestOnly(calls, limit) ==
    \E c \in calls : c.entry = "manifest_only" /\ Enter(c, limit)

\* cli.py lines 417-422: ingest_summary_file is called
IngestSummaryFile(calls, limit) == \E c \in calls : c.entry = "ingest" /\ Enter(c, limit)

\* sequences of calls on one store
I_Next ==
    \/ Upsert(IndexCalls, MaxCalls)
    \/ UpsertFromManifestOnly(IndexCalls, MaxCalls)
    \/ IngestSummaryFile(IndexCalls, MaxCalls)

\* a call that writes a row
Q_Next ==
    \/ Upsert(ColumnCalls, MaxColumnCalls)
    \/ UpsertFromManifestOnly(ColumnCalls, MaxColumnCalls)
    \/ IngestSummaryFile(ColumnCalls, MaxColumnCalls)

\* ---- index_merge.py: the shard stores and the loose summary files of a
\* ---- shard root are merged into the central store

MaxSources == 3

\* the names of the sources in sorted path order: a shard store is named
\* after its shard, and line 40 takes the shard of a summary file from its
\* directory
SourceNames == <<"a", "b", "c", "d", "e">>

\* a shard store on disk: the units it has rows for, and what can be read
\* of it.  "garbage" is no database (connect_db raises at its PRAGMA, line
\* 89), "no_mous" has no mous table, "no_eb" has its mous table and no
\* readable eb table, "central_name" is a sound store whose file is named
\* as the central store is
ShardStates == {"ok", "garbage", "no_mous", "no_eb", "central_name"}
ShardSources == [kind : {"shard"}, units : {{"u1"}, Units}, state : ShardStates]

\* a summary file on disk: it names a unit, names none, or is no JSON
SummarySources ==
    { [kind |-> "summary", units |-> {u}, state |-> "ok"] : u \in Units }
        \cup { [kind |-> "summary", units |-> {}, state |-> "nouid"],
               [kind |-> "summary", units |-> {}, state |-> "unparsable"] }

\* lines 27 and 38: the shard stores in sorted order, then the summary files
\* in sorted order
SourceLists ==
    UNION { UNION { { s \o t : s \in [1..k -> ShardSources],
                               t \in [1..(n - k) -> SummarySources] } : k \in 0..n } :
            n \in 0..MaxSources }

\* the mous row and the eb row that the store of a shard holds for a unit
ShardRow(uid, name) ==
    MousRow(uid, NamelessSummary, EmptyManifest, PyNone, PyNone, PyStr(name), 0)
ShardEb(uid, name) == <<uid, name>>
ShardArtifact(uid, name) ==
    [mous_uid |-> uid, filename |-> IndexFiles[1], status |-> "present", updated_at |-> 0]

\* a merge that gives a row it replaces a stamp one later than the stamp of
\* the row replaced
MergeMousRestamped(table, rows) ==
    { r \in table : \A n \in rows : n.mous_uid # r.mous_uid }
        \cup { IF \E r \in table : r.mous_uid = n.mous_uid
               THEN [n EXCEPT !.last_updated
                                  = (CHOOSE r \in table : r.mous_uid = n.mous_uid).last_updated + 1]
               ELSE n : n \in rows }

\* merge_db, lines 335-374: every mous row of the source replaces the row
\* of its unit
MergeMous(table, rows) ==
    { r \in table : \A n \in rows : n.mous_uid # r.mous_uid } \cup rows

\* merge_db, lines 376-384, for the eb table
MergeEbs(table, rows) == table \cup rows

\* merge_db, lines 376-384, for the artifact table: a row replaces the row
\* of its unit and filename
MergeArtifacts(table, rows) ==
    { r \in table : \A n \in rows : n.mous_uid # r.mous_uid \/ n.filename # r.filename }
        \cup rows

\* lines 28-36 for one shard store, on the connection `tables` of which
\* `committed` is on disk and which has a transaction open or not:
\* [merged, tables, committed, txn].  init_db (line 330) runs a script, and
\* sqlite3 commits an open transaction before a script; a statement that
\* writes opens a transaction; line 386 commits
MergeDb(tables, committed, txn, src, name) ==
    LET rows == { ShardRow(u, name) : u \in src.units }
        ebs == { ShardEb(u, name) : u \in src.units }
        artifacts == { ShardArtifact(u, name) : u \in src.units }
    IN CASE src.state \in {"central_name", "garbage"} ->
                [merged |-> FALSE, tables |-> tables, committed |-> committed, txn |-> txn]
         [] src.state = "no_mous" ->
                [merged |-> FALSE, tables |-> tables, committed |-> tables, txn |-> FALSE]
         [] src.state = "no_eb" ->
                [merged |-> FALSE, tables |-> [tables EXCEPT !.mous = MergeMous(@, rows)],
                 committed |-> tables, txn |-> TRUE]
         [] src.state = "ok" ->
                LET after == [tables EXCEPT !.mous = MergeMous(@, rows),
                                            !.eb = MergeEbs(@, ebs),
                                            !.artifact = MergeArtifacts(@, artifacts)]
                IN [merged |-> TRUE, tables |-> after, committed |-> after, txn |-> FALSE]

\* lines 39-47: the call of ingest_summary_file that a summary file gives
\* rise to; its manifest names no unit
SummaryCall(src, name) ==
    [entry |-> "ingest",
     summary |-> IF src.units = {} THEN NamelessSummary
                 ELSE [NamelessSummary EXCEPT !.mous_uid = PyStr(CHOOSE u \in src.units : TRUE)],
     manifest |-> EmptyManifest, last_error_stage |-> PyNone, last_error_message |-> PyNone,
     shard_id |-> PyStr(name)]

\* lines 39-50 for one summary file: [merged, tables, committed, txn].
\* json.loads raises before the store is touched (line 314), and so does
\* line 319; the upsert commits (line 304)
MergeSummary(tables, committed, txn, src, name, at) ==
    IF src.state = "unparsable"
    THEN [merged |-> FALSE, tables |-> tables, committed |-> committed, txn |-> txn]
    ELSE LET r == UpsertEntry(tables, SummaryCall(src, name), at)
         IN IF r.outcome = "raised"
            THEN [merged |-> FALSE, tables |-> tables, committed |-> committed, txn |-> txn]
            ELSE [merged |-> TRUE, tables |-> r.tables, committed |-> r.tables, txn |-> FALSE]

\* the central store with rows for these units
CentralStore(units) ==
    [mous |-> { ShardRow(u, "central") : u \in units },
     eb |-> { ShardEb(u, "central") : u \in units },
     artifact |-> { ShardArtifact(u, "central") : u \in units }]

\* shard stores only
ShardLists == UNION { [1..n -> ShardSources] : n \in 0..MaxSources }

\* lines 21-25: the central store is open and the counters are 0; this is
\* the first merge of these sources
M_Start(lists) ==
    /\ \E units \in {{}, Units} : store = CentralStore(units)
    /\ conn = store
    /\ store_before = store
    /\ upsert_call = <<>>
    /\ \E sources \in lists, vacuum \in BOOLEAN :
           merge = [pc |-> "merging", sources |-> sources, at |-> 1, merged_shard_dbs |-> 0,
                    merged_summary_files |-> 0, vacuum |-> vacuum, txn |-> FALSE, run |-> 1]

M_Init == M_Start(SourceLists)

\* a shard root without summary files
E_Init == M_Start(ShardLists)

\* the source that the loops are at
M_AtSource(kind) ==
    /\ merge.pc = "merging"
    /\ merge.at <= Len(merge.sources)
    /\ merge.sources[merge.at].kind = kind

\* lines 27-36: one turn of the loop over the shard stores
MergeShardDb ==
    /\ M_AtSource("shard")
    /\ LET r == MergeDb(conn, store, merge.txn, merge.sources[merge.at],
                        SourceNames[merge.at])
       IN /\ conn' = r.tables
          /\ store' = r.committed
          /\ merge' = [merge EXCEPT !.at = @ + 1, !.txn = r.txn,
                                    !.merged_shard_dbs = IF r.merged THEN @ + 1 ELSE @]
    /\ UNCHANGED <<store_before, upsert_call>>
    /\ I_Frame

\* lines 38-50: one turn of the loop over the summary files
MergeSummaryFile ==
    /\ M_AtSource("summary")
    /\ LET r == MergeSummary(conn, store, merge.txn, merge.sources[merge.at],
                             SourceNames[merge.at], merge.at)
       IN /\ conn' = r.tables
          /\ store' = r.committed
          /\ merge' = [merge EXCEPT !.at = @ + 1, !.txn = r.txn,
                                    !.merged_summary_files = IF r.merged THEN @ + 1 ELSE @]
    /\ UNCHANGED <<store_before, upsert_call>>
    /\ I_Frame

\* lines 52-53: VACUUM cannot run within a transaction: it raises, the
\* merge ends with the error and what was not committed is lost
MergeVacuum ==
    /\ merge.pc = "merging"
    /\ merge.at > Len(merge.sources)
    /\ IF merge.vacuum /\ merge.txn
       THEN /\ merge' = [merge EXCEPT !.pc = "raised", !.txn = FALSE]
            /\ conn' = store
       ELSE /\ merge' = [merge EXCEPT !.pc = "integrity"]
            /\ conn' = conn
    /\ UNCHANGED <<store, store_before, upsert_call>>
    /\ I_Frame

\* lines 55-66: the check, the commit and the counts
MergeClose ==
    /\ merge.pc = "integrity"
    /\ store' = conn
    /\ merge' = [merge EXCEPT !.pc = "done", !.txn = FALSE]
    /\ UNCHANGED <<conn, store_before, upsert_call>>
    /\ I_Frame

\* the command is given again over the same shard root: lines 21-25 once
\* more, on the central store as the first merge left it
MergeAgain ==
    /\ merge.pc \in {"done", "raised"}
    /\ merge.run = 1
    /\ merge' = [merge EXCEPT !.pc = "merging", !.at = 1, !.merged_shard_dbs = 0,
                              !.merged_summary_files = 0, !.txn = FALSE, !.run = 2]
    /\ conn' = store
    /\ store_before' = store
    /\ UNCHANGED <<store, upsert_call>>
    /\ I_Frame

\* two merges of the shard stores of one shard root
E_Next ==
    \/ MergeShardDb
    \/ MergeVacuum
    \/ MergeClose
    \/ MergeAgain

\* merge_index_from_shards, step by step
M_Next ==
    \/ MergeShardDb
    \/ MergeSummaryFile
    \/ MergeVacuum
    \/ MergeClose


\* ---- downloader.py resolve_artifact_selection: the kinds that a
\* ---- comma-separated specification selects

MaxTokens == 3

\* lines 22-39
DEFAULT_ARTIFACT_KINDS ==
    {"calibration", "scripts", "weblog", "qa_reports", "auxiliary", "readme",
     "calibration_products"}
ALL_NONIMAGE_KINDS ==
    {"calibration", "scripts", "weblog", "qa_reports", "auxiliary", "readme", "raw", "other"}

\* a piece of the specification between two commas, blanks stripped: the
\* signs it begins with and the text after them
Signs == {"", "+", "-"}
Words == {"default", "all-nonimage", "Raw", "weblog", ""}
Pieces == [sign : Signs, word : Words]

\* _normalize_kind, lines 41-42, on the words of the model
NormalizeKind(kind) ==
    CASE kind = "Raw" -> "raw"
      [] kind = " " -> ""
      [] OTHER -> kind

\* lines 106-108: no specification, or a blank one, is "default"
SpecOrDefault(spec) == IF spec = <<>> THEN << [sign |-> "", word |-> "default"] >> ELSE spec

\* line 110: the pieces that are not blank
RECURSIVE TokensOf(_)
TokensOf(spec) ==
    IF spec = <<>> THEN <<>>
    ELSE IF Head(spec).sign = "" /\ Head(spec).word = "" THEN TokensOf(Tail(spec))
    ELSE <<Head(spec)>> \o TokensOf(Tail(spec))

\* lines 111-124: what one token makes of the selection
ApplyToken(selected, token) ==
    LET token_norm == NormalizeKind(token.word)
    IN IF token.sign = "" /\ token.word = "default" THEN selected \cup DEFAULT_ARTIFACT_KINDS
       ELSE IF token.sign = "" /\ token.word = "all-nonimage"
       THEN selected \cup ALL_NONIMAGE_KINDS
       ELSE IF token.sign = "+" THEN selected \cup {token_norm}
       ELSE IF token.sign = "-" THEN selected \ {token_norm}
       ELSE selected \cup {token_norm}

\* a return without the default set
SelectionAsIs(selected) == selected

\* lines 125-127
SelectionOrDefault(selected) == IF selected = {} THEN DEFAULT_ARTIFACT_KINDS ELSE selected

\* lines 105-109: the call, with its specification
S_Init ==
    /\ \E n \in 0..MaxTokens : \E spec \in [1..n -> Pieces] :
           selection = [pc |-> "loop", spec |-> spec, tokens |-> TokensOf(SpecOrDefault(spec)),
                        at |-> 1, selected |-> {}, result |-> {}]
    /\ classify = [pc |-> "off"]
    /\ batch = [pc |-> "off"]

C_Frame == UNCHANGED <<x_vars, t_vars, p_vars, n_vars, i_vars>>

\* lines 110-124: one turn of the loop
SelectToken ==
    /\ selection.pc = "loop"
    /\ selection.at <= Len(selection.tokens)
    /\ selection' = [selection EXCEPT !.at = @ + 1,
                                      !.selected = ApplyToken(@, selection.tokens[selection.at])]
    /\ UNCHANGED <<classify, batch>>
    /\ C_Frame

\* lines 125-127: the return
SelectReturn ==
    /\ selection.pc = "loop"
    /\ selection.at > Len(selection.tokens)
    /\ selection' = [selection EXCEPT !.pc = "done",
                                      !.result = SelectionOrDefault(selection.selected)]
    /\ UNCHANGED <<classify, batch>>
    /\ C_Frame

S_Next ==
    \/ SelectToken
    \/ SelectReturn

\* ---- downloader.py _classify_artifact: the kind of an artifact of the
\* ---- listing

MaxFragments == 2

\* a filename or a semantics value is the set of the pieces of text it is
\* made of; ".cal$" is a name that ends in .cal
NameFragments ==
    {"README", "weblog", "qa0_report", "qa2_report", "qa/", "aquareport", "auxiliary",
     "auxproducts", "scriptforpi", "calibration", ".cal$", "calimage", "cube", "cont", "admit",
     "image", "asdm", "raw"}
SemanticsFragments ==
    {"readme", "Documentation", "weblog", "/qa/", "#qa", "qa2", "#auxiliary", "auxiliary",
     "script", "calibration", "calimage"}
KindHints == {"", " ", "Raw", "other"}

\* str.lower on a piece of text
Lower(text) ==
    CASE text = "README" -> "readme"
      [] text = "Documentation" -> "documentation"
      [] text = "Raw" -> "raw"
      [] OTHER -> text

\* the words of the rules that a piece of lower-case text contains
WordsIn(text) ==
    CASE text = "calimage" -> {"calimage", "image"}
      [] text = "#auxiliary" -> {"#auxiliary", "auxiliary"}
      [] OTHER -> {text}

\* lines 59-60 and the operator "in": the word is in the lower-case text
In(word, text) == \E piece \in text : word \in WordsIn(Lower(piece))

\* a chain of rules that looks at the image words of the filename only
FirstRuleImagesOnly(name, semantics_l) ==
    IF In("cube", name) THEN "cubes"
    ELSE IF In("cont", name) \/ In("image", name) THEN "continuum_images"
    ELSE "none"

\* lines 63-98: the kind of the first rule that matches, "none" when none
\* does
FirstRule(name, semantics_l) ==
    IF In("readme", name) \/ In("readme", semantics_l) \/ In("documentation", semantics_l)
    THEN "readme"
    ELSE IF In("weblog", name) \/ In("weblog", semantics_l) THEN "weblog"
    ELSE IF \/ In("qa0_report", name)
            \/ In("qa2_report", name)
            \/ In("qa/", name)
            \/ In("/qa/", semantics_l)
            \/ In("#qa", semantics_l)
            \/ In("qa2", semantics_l)
            \/ In("aquareport", name)
    THEN "qa_reports"
    ELSE IF \/ In("auxiliary", name)
            \/ In("#auxiliary", semantics_l)
            \/ In("auxiliary", semantics_l)
            \/ In("auxproducts", name)
    THEN "auxiliary"
    ELSE IF In("scriptforpi", name) \/ In("script", semantics_l) THEN "scripts"
    ELSE IF In("calibration", name) \/ In(".cal$", name) \/ In("calibration", semantics_l)
    THEN "calibration"
    ELSE IF In("calimage", name) \/ In("calimage", semantics_l) THEN "calibration_products"
    ELSE IF In("cube", name) THEN "cubes"
    ELSE IF In("cont", name) THEN "continuum_images"
    ELSE IF In("admit", name) THEN "admit"
    ELSE IF In("image", name) THEN "continuum_images"
    ELSE IF In("asdm", name) \/ In("raw", name) THEN "raw"
    ELSE "none"

\* _classify_artifact, lines 58-102
ClassifyArtifact(kind_hint, semantics, filename) ==
    LET rule == FirstRule(filename, semantics)
    IN IF rule # "none" THEN rule
       ELSE IF Lower(kind_hint) # "" THEN NormalizeKind(kind_hint)
       ELSE "other"

\* the sets of at most n of these pieces
UpTo(pieces, n) == { text \in SUBSET pieces : Cardinality(text) <= n }

\* a call: the listing gives a filename and at most one semantics value
K_Init ==
    /\ \E kind_hint \in KindHints, semantics \in UpTo(SemanticsFragments, 1),
          filename \in UpTo(NameFragments, MaxFragments) :
           classify = [pc |-> "called", kind_hint |-> kind_hint, semantics |-> semantics,
                       filename |-> filename, result |-> "none"]
    /\ selection = [pc |-> "off"]
    /\ batch = [pc |-> "off"]

\* the call returns
Classify ==
    /\ classify.pc = "called"
    /\ classify' = [classify EXCEPT !.pc = "done",
                                    !.result = ClassifyArtifact(classify.kind_hint,
                                                                classify.semantics,
                                                                classify.filename)]
    /\ UNCHANGED <<selection, batch>>
    /\ C_Frame

K_Next == Classify

\* ---- _download_one against a server that honours byte ranges ----

\* what an earlier run or attempt may have left at the .part path: the
\* files of InitialParts, and a file longer than the content
LeftoverParts == InitialParts \cup {File([i \in 1..(ContentLen + 1) |-> Stale])}

\* _download_one is entered with a retry budget, for an artifact whose size
\* the listing does not give or gives as the size of the content
V_Init ==
    /\ retry_count \in 1..MaxRetries
    /\ expected \in {NoSize, ContentLen}
    /\ temp_file \in LeftoverParts
    /\ local_file \in InitialLocals(expected)
    /\ attempt = 0
    /\ t_pc = "for"
    /\ downloaded = 0
    /\ mode = "wb"
    /\ range_start = NoRange
    /\ resp = NoResp
    /\ exc = None
    /\ result = NoResult
    /\ sleeps = <<>>
    /\ temp_before = temp_file
    /\ local_before = local_file

\* the server answers a request without a Range header with the content
GetWhole ==
    /\ range_start = NoRange
    /\ GetFull

\* line 309: the server answers a range that starts at or after the end of
\* the content with 416, and raise_for_status raises
GetRangeNotSatisfiable ==
    /\ t_pc = "get"
    /\ range_start # NoRange /\ range_start >= ContentLen
    /\ resp' = [status |-> 416, body |-> <<>>, left |-> <<>>]
    /\ Throw("HTTPError 416")
    /\ UNCHANGED <<retry_count, expected, temp_file, local_file, attempt, downloaded, mode,
                   range_start, result, sleeps, temp_before, local_before>>
    /\ T_Frame

\* the transfer with a server that honours ranges and a connection that
\* does not break
V_Next ==
    \/ LoopNext
    \/ BuildRequest
    \/ GetWhole
    \/ GetPartial
    \/ GetRangeNotSatisfiable
    \/ OpenPart
    \/ WriteChunk
    \/ Verify
    \/ Replace
    \/ ReturnOk
    \/ Except

\* ---------------------------------------------------------------------------
\* The batch commands of cli.py: download, unpack, summarize and run-shard
\* ---------------------------------------------------------------------------

\* the most units of a batch
MaxUnits == 2

\* the last minute of the clock
MaxMinutes == 2

\* the largest budget of a run, in minutes
MaxRuntimeMin == 1

\* the units: what summarize_mous finds in the delivered files of each
\* (summarize.py lines 412-448: the commands that flag data, and the QA
\* reports of the pipeline)
DeliveredFiles ==
    <<[dr_flag_commands_count |-> 1, aquareport_files |-> TRUE],
      [dr_flag_commands_count |-> 0, aquareport_files |-> TRUE],
      [dr_flag_commands_count |-> 1, aquareport_files |-> FALSE]>>

BatchCommands == {"download", "unpack", "summarize", "run-shard"}

\* the directory of a unit: the manifest file ("absent", "partial" or
\* "whole"), what a whole manifest holds (a mous_uid, an artifact with the
\* status "present", a non-empty "unpacked"), and the file beside it with the
\* suffix ".tmp"
UnitFiles ==
    { f \in [manifest : {"absent", "whole"}, named : BOOLEAN, present : BOOLEAN,
             unpacked : BOOLEAN, temp : {FALSE}] :
        /\ f.manifest = "absent" => ~f.named
        /\ f.present => f.named
        /\ f.unpacked => f.present }

\* a unit the index has no row of
NoRow ==
    [found |-> FALSE, downloaded |-> 0, unpacked |-> 0, summarized |-> 0,
     dr_flag_commands_count |-> 0, asa_qa_present |-> 0]

\* the summary that summarize_mous returns (summarize.py lines 431-448)
SummaryOfUnit(i) ==
    [dr_flag_commands_count |-> DeliveredFiles[i].dr_flag_commands_count,
     aquareport_files |-> DeliveredFiles[i].aquareport_files]

\* cli.py lines 221-235: the summary _upsert_from_manifest_only makes, with a
\* count of 0 and no run
SummaryOfManifest == [dr_flag_commands_count |-> 0, aquareport_files |-> FALSE]

\* index_db.py lines 181-193 and 204-240: the row of upsert_mous_from_summary
\* for a summary that is not empty; every column is written
BatchRow(f, s) ==
    [found |-> TRUE,
     downloaded |-> IF f.present THEN 1 ELSE 0,
     unpacked |-> IF f.unpacked THEN 1 ELSE 0,
     summarized |-> 1,
     dr_flag_commands_count |-> s.dr_flag_commands_count,
     asa_qa_present |-> IF s.aquareport_files THEN 1 ELSE 0]

\* the row of a unit when a command starts: none, or the row of an earlier
\* summarize of the same files
RowOf(f, i, indexed) == IF indexed THEN BatchRow(f, SummaryOfUnit(i)) ELSE NoRow

\* cli.py lines 107-110
MaybeStopForRuntime(started, max_runtime_min, utcnow) ==
    IF max_runtime_min = 0 THEN FALSE ELSE utcnow >= started + max_runtime_min

\* no write of a manifest is under way
NotWriting ==
    [how |-> "none", then |-> "none", named |-> FALSE, present |-> FALSE, unpacked |-> FALSE]

\* the start of a command: the units of the batch (and, in before, their
\* files as the command found them), the index, the clock
B_Init ==
    /\ selection = [pc |-> "off"]
    /\ classify = [pc |-> "off"]
    /\ \E n \in 1..MaxUnits, command \in BatchCommands, download_missing \in BOOLEAN,
          max_runtime_min \in 0..MaxRuntimeMin :
         \E units \in [1..n -> UnitFiles] :
           \E indexed \in [1..n -> BOOLEAN] :
             /\ download_missing => command = "run-shard"
             /\ \A i \in 1..n : indexed[i] => units[i].named
             /\ batch = [pc |-> "loop", command |-> command,
                         download_missing |-> download_missing,
                         max_runtime_min |-> max_runtime_min, started |-> 0, utcnow |-> 0,
                         units |-> units, before |-> units,
                         rows |-> [i \in 1..n |-> RowOf(units[i], i, indexed[i])],
                         at |-> 1, done |-> 0,
                         stopped |-> FALSE, reported |-> FALSE,
                         writing |-> NotWriting]

B_Frame == C_Frame /\ UNCHANGED <<selection, classify>>

B_Unit == batch.units[batch.at]

\* the head of the loop of a command (cli.py lines 280, 318, 367 and 479),
\* and lines 302-304, 349-351, 392-394 and 568-570 when the loop is over
ForUnit ==
    /\ batch.pc = "loop"
    /\ IF batch.at > Len(batch.units)
       THEN batch' = [batch EXCEPT !.pc = "returned", !.reported = TRUE]
       ELSE CASE batch.command = "download" -> batch' = [batch EXCEPT !.pc = "download"]
              [] batch.command \in {"unpack", "summarize"} ->
                     \* lines 319-321 and 368-370
                     IF B_Unit.manifest = "absent"
                     THEN batch' = [batch EXCEPT !.at = @ + 1]
                     ELSE batch' = [batch EXCEPT !.pc = batch.command]
              [] batch.command = "run-shard" ->
                     \* lines 482-496
                     IF batch.download_missing
                     THEN batch' = [batch EXCEPT !.pc = "download"]
                     ELSE IF B_Unit.manifest = "partial"
                          THEN batch' = [batch EXCEPT !.pc = "raised"]
                          ELSE batch' = [batch EXCEPT !.pc = "exists"]
    /\ B_Frame

\* download_for_record (downloader.py lines 337-450): the listing of line 354
\* raises what the archive's answer raises (line 166), or the artifacts are
\* fetched and the manifest is saved (lines 263-265)
DownloadForRecord ==
    /\ batch.pc = "download"
    /\ \E answer \in {"ok", "error"} :
         IF answer = "error"
         THEN batch' = [batch EXCEPT !.pc = "raised"]
         ELSE batch' = [batch EXCEPT
                          !.pc = "write",
                          !.writing = [how |-> "atomic",
                                       then |-> IF batch.command = "download" THEN "upsert"
                                                ELSE "exists",
                                       named |-> TRUE, present |-> TRUE,
                                       unpacked |-> B_Unit.unpacked]]
    /\ B_Frame

\* cli.py lines 500-517: a manifest that does not exist is made of the record
\* and written with write_text
ManifestExists ==
    /\ batch.pc = "exists"
    /\ IF B_Unit.manifest = "absent"
       THEN batch' = [batch EXCEPT
                        !.pc = "write",
                        !.writing = [how |-> "text", then |-> "unpack",
                                     named |-> TRUE, present |-> FALSE, unpacked |-> FALSE]]
       ELSE batch' = [batch EXCEPT !.pc = "unpack"]
    /\ B_Frame

\* unpack_mous_delivered (unpack.py lines 290-414): the manifest is read, the
\* archives are unpacked (a failure of one is caught, lines 315-364), and the
\* manifest is saved (line 413)
UnpackMousDelivered ==
    /\ batch.pc = "unpack"
    /\ IF B_Unit.manifest = "partial"
       THEN batch' = [batch EXCEPT !.pc = "raised"]
       ELSE batch' = [batch EXCEPT
                        !.pc = "write",
                        !.writing = [how |-> "atomic",
                                     then |-> IF batch.command = "unpack" THEN "upsert"
                                              ELSE "summarize",
                                     named |-> B_Unit.named, present |-> B_Unit.present,
                                     unpacked |-> B_Unit.unpacked \/ B_Unit.present]]
    /\ B_Frame

\* the first half of a write: utils.py lines 45-49 write the file with the
\* suffix ".tmp"; write_text (cli.py line 517) opens the manifest itself and
\* empties it
WriteOpen ==
    /\ batch.pc = "write"
    /\ batch' = [batch EXCEPT
                   !.pc = "written",
                   !.units[batch.at] =
                       IF batch.writing.how = "atomic" THEN [@ EXCEPT !.temp = TRUE]
                       ELSE [@ EXCEPT !.manifest = "partial"]]
    /\ B_Frame

\* the second half: os.replace (utils.py line 50), or the rest of the text
WriteClose ==
    /\ batch.pc = "written"
    /\ batch' = [batch EXCEPT
                   !.pc = batch.writing.then,
                   !.writing = NotWriting,
                   !.units[batch.at] =
                       [manifest |-> "whole", named |-> batch.writing.named,
                        present |-> batch.writing.present,
                        unpacked |-> batch.writing.unpacked, temp |-> FALSE]]
    /\ B_Frame

\* summarize_mous (summarize.py lines 340-476): the summary file is written,
\* the manifest is only read
SummarizeMous ==
    /\ batch.pc = "summarize"
    /\ IF B_Unit.manifest = "partial"
       THEN batch' = [batch EXCEPT !.pc = "raised"]
       ELSE batch' = [batch EXCEPT !.pc = "upsert"]
    /\ B_Frame

\* the row of the unit: _upsert_from_manifest_only (cli.py lines 220-246) in
\* download and unpack, which returns without a mous_uid (lines 237-238);
\* upsert_mous_from_summary in summarize and run-shard (lines 381-387 and
\* 556-562), which raises without one (index_db.py lines 163-164).  Then the
\* count of lines 296, 345, 388 and 563
UpsertUnit ==
    /\ batch.pc = "upsert"
    /\ IF batch.command \in {"download", "unpack"}
       THEN batch' = [batch EXCEPT
                        !.pc = "check",
                        !.done = @ + 1,
                        !.rows[batch.at] = IF B_Unit.named
                                           THEN BatchRow(B_Unit, SummaryOfManifest)
                                           ELSE @]
       ELSE IF ~B_Unit.named
            THEN batch' = [batch EXCEPT !.pc = "raised"]
            ELSE batch' = [batch EXCEPT
                             !.pc = "check",
                             !.done = @ + 1,
                             !.rows[batch.at] = BatchRow(B_Unit, SummaryOfUnit(batch.at))]
    /\ B_Frame

\* cli.py lines 298-300, 346-348, 389-391 and 564-566: the loop goes on, or
\* it is left for the report of the count
CheckRuntime ==
    /\ batch.pc = "check"
    /\ IF MaybeStopForRuntime(batch.started, batch.max_runtime_min, batch.utcnow)
       THEN batch' = [batch EXCEPT !.pc = "returned", !.stopped = TRUE, !.reported = TRUE]
       ELSE batch' = [batch EXCEPT !.pc = "loop", !.at = @ + 1]
    /\ B_Frame

\* a minute passes while the command runs
Minute ==
    /\ batch.pc \notin {"off", "returned", "raised"}
    /\ batch.utcnow < MaxMinutes
    /\ batch' = [batch EXCEPT !.utcnow = @ + 1]
    /\ B_Frame

B_Next ==
    \/ ForUnit
    \/ DownloadForRecord
    \/ ManifestExists
    \/ UnpackMousDelivered
    \/ WriteOpen
    \/ WriteClose
    \/ SummarizeMous
    \/ UpsertUnit
    \/ CheckRuntime
    \/ Minute

\* the loop over the listing and what follows it at once
L_Next ==
    \/ DownloadStart
    \/ DownloadNothingMissing
    \/ DownloadSubmit
    \/ DownloadEnd

D_Next ==
    \/ DownloadStart
    \/ DownloadNothingMissing
    \/ DownloadSubmit
    \/ \E i \in 1..Len(tasks) : TaskStart(i)
    \/ \E i \in 1..Len(tasks) : TaskOk(i)
    \/ \E i \in 1..Len(tasks) : TaskError(i)
    \/ \E i \in 1..Len(tasks) : TaskRaise(i)
    \/ \E i \in 1..Len(tasks) : Collect(i)
    \/ DownloadSave
    \/ DownloadAbort
    \/ DownloadEnd

\* the stages on a listing that names every file once: no two transfers
\* share a .part, so line 292 cannot raise
P_Next ==
    \/ DownloadStart
    \/ DownloadNothingMissing
    \/ DownloadSubmit
    \/ \E i \in 1..Len(tasks) : TaskStart(i)
    \/ \E i \in 1..Len(tasks) : TaskOk(i)
    \/ \E i \in 1..Len(tasks) : TaskError(i)
    \/ \E i \in 1..Len(tasks) : Collect(i)
    \/ DownloadSave
    \/ DownloadEnd
    \/ UnpackRun
    \/ UnpackEnd

\* the unpack stage alone
U_Next ==
    \/ UnpackRun
    \/ UnpackEnd

\* every step of both stages
R_Next ==
    \/ D_Next
    \/ UnpackRun
    \/ UnpackEnd

vars == <<x_vars, t_vars, p_vars, n_vars, i_vars, c_vars>>

InitExtract == X_Init /\ T_Idle /\ P_Idle /\ N_Idle /\ I_Idle /\ C_Idle

SpecExtract == InitExtract /\ [][X_Next]_vars

InitTransfer == T_Init /\ X_Idle /\ P_Idle /\ N_Idle /\ I_Idle /\ C_Idle

SpecTransfer == InitTransfer /\ [][T_Next]_vars

InitLoop == L_Init /\ X_Idle /\ T_Idle /\ N_Idle /\ I_Idle /\ C_Idle

SpecLoop == InitLoop /\ [][L_Next]_vars

InitDownload == D_Init /\ X_Idle /\ T_Idle /\ N_Idle /\ I_Idle /\ C_Idle

SpecDownload == InitDownload /\ [][D_Next]_vars

InitStages == P_Init /\ X_Idle /\ T_Idle /\ N_Idle /\ I_Idle /\ C_Idle

SpecStages == InitStages /\ [][P_Next]_vars

InitRecursive == N_Init /\ X_Idle /\ T_Idle /\ P_Idle /\ I_Idle /\ C_Idle

\* _recursive_unpack is one sequential loop: each of its steps is taken
SpecRecursive == InitRecursive /\ [][N_Next]_vars /\ WF_vars(N_Next)

InitPatterns == G_Init /\ X_Idle /\ T_Idle /\ P_Idle /\ I_Idle /\ C_Idle
SpecPatterns == InitPatterns /\ [][N_Next]_vars

InitIndex == I_Init /\ X_Idle /\ T_Idle /\ P_Idle /\ N_Idle /\ C_Idle
SpecIndex == InitIndex /\ [][I_Next]_vars

InitColumns == I_Init /\ X_Idle /\ T_Idle /\ P_Idle /\ N_Idle /\ C_Idle
SpecColumns == InitColumns /\ [][Q_Next]_vars

InitMerge == M_Init /\ X_Idle /\ T_Idle /\ P_Idle /\ N_Idle /\ C_Idle
SpecMerge == InitMerge /\ [][M_Next]_vars

InitSelection == S_Init /\ X_Idle /\ T_Idle /\ P_Idle /\ N_Idle /\ I_Idle
SpecSelection == InitSelection /\ [][S_Next]_vars

InitClassify == K_Init /\ X_Idle /\ T_Idle /\ P_Idle /\ N_Idle /\ I_Idle
SpecClassify == InitClassify /\ [][K_Next]_vars

InitRemerge == E_Init /\ X_Idle /\ T_Idle /\ P_Idle /\ N_Idle /\ C_Idle
SpecRemerge == InitRemerge /\ [][E_Next]_vars

InitResume == V_Init /\ X_Idle /\ P_Idle /\ N_Idle /\ I_Idle /\ C_Idle

\* _download_one is one sequential loop in its thread: each of its steps is
\* taken
SpecResume == InitResume /\ [][V_Next]_vars /\ WF_vars(V_Next)

InitBatch == B_Init /\ X_Idle /\ T_Idle /\ P_Idle /\ N_Idle /\ I_Idle
SpecBatch == InitBatch /\ [][B_Next]_vars

InitPrefix == A_Init /\ T_Idle /\ P_Idle /\ N_Idle /\ I_Idle /\ C_Idle

SpecPrefix == InitPrefix /\ [][A_Next]_vars

InitUnpack == U_Init /\ X_Idle /\ T_Idle /\ N_Idle /\ I_Idle /\ C_Idle

SpecUnpack == InitUnpack /\ [][U_Next]_vars

InitRepeat == R_Init /\ X_Idle /\ T_Idle /\ N_Idle /\ I_Idle /\ C_Idle

SpecRepeat == InitRepeat /\ [][R_Next]_vars

(***************************************************************************)
(* Claims about safe extraction.                                           *)
(***************************************************************************)

\* C1: safe extraction creates or writes files and directories only inside
\* the target directory; a member whose resolved destination lies outside
\* it (a sibling directory whose name begins with the target's name
\* included) is rejected and nothing is written for it.
C1_WritesOnlyInsideTarget ==
    \A p \in x_written : IsInside(Resolve(target_dir), p)

\* C2: when a member of the archive resolves outside the target directory
\* the archive is rejected without partial extraction: none of its members
\* has been written.
C2_RejectedWithoutPartialExtraction ==
    (x_state = "raised" /\ x_error = "Unsafe tar member path") => x_written = {}

(***************************************************************************)
(* Claims about one transfer.                                              *)
(***************************************************************************)

\* C3: at every point of a transfer the file at the final path is either
\* untouched or a completed download whose size equals the expected size
\* when that is known; received bytes go to the .part file only, and a
\* failed transfer leaves the final path as it was.
C3_LocalPathUntouchedOrComplete ==
    /\ t_pc \in {"for", "stat", "get", "open", "iter", "except", "replace"}
          => local_file = local_before
    /\ local_file # local_before
          => /\ local_file.exists
             /\ resp.status \in {200, 206} /\ resp.left = <<>>
             /\ (expected # NoSize => Size(local_file) = expected)
    /\ result.status = "error" => local_file = local_before

\* a transfer failed for good after it had received bytes, next to a file
\* that was already at the final path
C3_Witness ==
    /\ result.status = "error"
    /\ local_before.exists
    /\ temp_file.exists /\ temp_file.data # <<>>
    /\ resp.status = 200

\* the waits of the except clause: min(2^attempt, 10) for attempt = 1, 2, ..
ExpectedSleeps == <<2, 4, 8, 10, 10, 10, 10, 10>>

\* C5: a transfer makes at most retry_count attempts, stops at the first
\* successful one, sleeps min(2^attempt, 10) seconds between a failed
\* attempt and the next, and returns error, with the failure message of
\* the last attempt, only after attempt number retry_count failed; with
\* retry_count >= 1 at least one attempt is made.
C5_RetryDiscipline ==
    /\ attempt <= retry_count
    /\ sleeps = SubSeq(ExpectedSleeps, 1, Len(sleeps))
    /\ Len(sleeps) = (IF t_pc = "for" /\ attempt < retry_count THEN attempt
                      ELSE IF attempt = 0 THEN 0 ELSE attempt - 1)
    /\ result.status = "ok" => t_pc = "returned" /\ exc = None
    /\ (retry_count >= 1 /\ result.status = "error")
          => /\ attempt = retry_count
             /\ exc # None
             /\ result.error = exc
    /\ (retry_count >= 1 /\ t_pc = "returned") => attempt >= 1

\* a transfer gave up after enough failed attempts for the cap of the wait
\* to apply
C5_Witness ==
    /\ result.status = "error"
    /\ Len(sleeps) >= 4
    /\ result.error = "Size mismatch"

\* C6: an attempt that finds a non-empty .part asks for the bytes from the
\* .part size on; a 200 answer rewrites the .part from byte zero, any other
\* answer is appended; the .part is renamed only after the size check, so
\* the landed file is never a stale partial followed by a full body.
C6_ResumeOrRestart ==
    /\ t_pc \in {"get", "open", "iter", "replace", "replaced"}
          => range_start = (IF temp_before.exists /\ Size(temp_before) > 0
                            THEN Size(temp_before) ELSE NoRange)
    /\ t_pc = "replaced"
          => /\ local_file.data = (IF range_start = NoRange \/ resp.status = 200
                                   THEN resp.body
                                   ELSE temp_before.data \o resp.body)
             /\ (expected = NoSize \/ Size(local_file) = expected)
             /\ (range_start # NoRange => local_file.data # temp_before.data \o Content)

\* the server answered a range request with a full 200 and the file landed
C6_Witness ==
    /\ t_pc = "replaced"
    /\ range_start # NoRange
    /\ resp.status = 200
    /\ local_file.data = Content

(***************************************************************************)
(* Claims about one invocation of the download stage.                      *)
(***************************************************************************)

\* what a finished task stands for in an entry of the manifest
C4_Recorded(e, t) ==
    /\ e.status = (IF t.status = "ok" THEN "present" ELSE "error")
    /\ e.error = t.error
    /\ e.size_bytes = t.size

\* C4: when the transfer of one artifact has used up its retries, the
\* invocation still returns normally with the manifest saved, the entry of
\* the failed artifact has status error with the last failure message, and
\* the outcome of every other submitted artifact is recorded (present on
\* success).
C4_FailedArtifactNeverAborts ==
    (d_pc \in {"returned", "raised"} /\ \E i \in 1..Len(tasks) : tasks[i].status = "error")
       => /\ d_pc = "returned"
          /\ manifest_file.exists
          /\ manifest_file # d_before
          /\ \A i \in 1..Len(tasks) :
                \E e \in EntriesOf(manifest_file, tasks[i].art.filename) :
                   C4_Recorded(e, tasks[i])

\* cases (a) and (b) of the claim, on what the invocation found
C7_FileMatches(art) ==
    /\ d_disk[art.filename].exists
    /\ art.size_bytes = NoSize \/ d_disk[art.filename].size = art.size_bytes

C7_UnpackedAndRemoved(art) ==
    \E e \in EntriesOf(d_before, art.filename) :
       e.removed = "True" /\ e.unpacked_to # None

C7_Skipped(art) ==
    art.kind \in selected_kinds /\ (C7_FileMatches(art) \/ C7_UnpackedAndRemoved(art))

C7_Fetched(art) ==
    art.kind \in selected_kinds /\ ~C7_FileMatches(art) /\ ~C7_UnpackedAndRemoved(art)

\* C7: after the loop over the listing, the artifacts submitted for
\* transfer are exactly those of a selected kind that neither (a) have a
\* same-named local file of the expected size (any file when the size is
\* unknown) nor (b) have an entry that says unpacked and archive removed;
\* those that do are marked present without a transfer; an artifact of a
\* kind that is not selected is not transferred and its filename gets no
\* entry.
C7_PresentWithoutTransfer ==
    d_pc = "looped"
       => /\ to_fetch = SelectSeq(available, C7_Fetched)
          /\ tasks = <<>>
          /\ \A fn \in Filenames :
                IF \E i \in 1..Len(available) :
                      available[i].filename = fn /\ C7_Skipped(available[i])
                THEN /\ Cardinality(EntriesOf(manifest, fn)) = 1
                     /\ \A e \in EntriesOf(manifest, fn) : e.status = "present"
                ELSE EntriesOf(manifest, fn) = EntriesOf(d_before, fn)
          /\ Len(manifest.artifacts) =
                Len(d_before.artifacts)
                + Cardinality({ fn \in Filenames :
                                  /\ EntriesOf(d_before, fn) = {}
                                  /\ \E i \in 1..Len(available) :
                                        /\ available[i].filename = fn
                                        /\ C7_Skipped(available[i]) })

\* the listing has an archive that is gone from disk but marked unpacked and
\* removed, and a file that has to be fetched
C7_Witness ==
    /\ d_pc = "looped"
    /\ Len(available) = 2
    /\ available[1].filename = AuxName /\ ~d_disk[AuxName].exists
    /\ C7_UnpackedAndRemoved(available[1])
    /\ available[2].filename = CalName
    /\ to_fetch = <<available[2]>>

\* the listed artifacts of a selected kind all have an entry with status
\* present, and nothing has to be fetched
C8_NothingMissing ==
    /\ d_before.exists
    /\ to_fetch = <<>>
    /\ tasks = <<>>
    /\ \A i \in 1..Len(available) :
          available[i].kind \in selected_kinds
             => \E e \in EntriesOf(d_before, available[i].filename) : e.status = "present"

\* C8: a download invocation that finds nothing missing leaves every
\* artifact entry as it was, field by field; the manifest differs from the
\* one it read in the appended history record only.
C8_RerunKeepsEntries ==
    (d_pc = "returned" /\ C8_NothingMissing)
       => /\ manifest_file.artifacts = d_before.artifacts
          /\ manifest_file.unpacked = d_before.unpacked
          /\ manifest_file.history = Append(d_before.history, "download: no missing")

C9_Terminal(fn) ==
    /\ manifest_file.exists
    /\ \E e \in EntriesOf(manifest_file, fn) :
          e.status = "present" /\ e.removed = "True" /\ e.unpacked_to # None

C11_Unique(m) ==
    \A i, j \in 1..Len(m.artifacts) :
        m.artifacts[i].filename = m.artifacts[j].filename => i = j

\* every filename that has an entry in m has one in n
C11_Kept(m, n) ==
    \A i \in 1..Len(m.artifacts) :
        \E j \in 1..Len(n.artifacts) : n.artifacts[j].filename = m.artifacts[i].filename

\* C11: starting from a manifest with at most one entry per filename, after
\* any sequence of download and unpack invocations the manifest, on disk and
\* in memory, has at most one entry per filename, also when the listing names
\* a file more than once, and no step of a stage removes an entry
C11_OneEntryPerFilename ==
    /\ [](C11_Unique(manifest_file) /\ C11_Unique(manifest))
    /\ [][/\ C11_Kept(manifest_file, manifest_file')
          /\ (d_pc' # "idle" => C11_Kept(manifest, manifest'))]_vars

\* a manifest saved by a download whose listing named one file twice, after
\* an earlier stage had run, holds the entry of that file
C11_Witness ==
    /\ d_pc = "returned"
    /\ runs = MaxRepeat
    /\ Len(available) = 2
    /\ available[1].filename = available[2].filename
    /\ Len(tasks) = 2
    /\ Len(manifest_file.artifacts) >= 1
    /\ \E i \in 1..Len(manifest_file.artifacts) :
          /\ manifest_file.artifacts[i].filename = available[1].filename
          /\ manifest_file.artifacts[i].status = "present"

(***************************************************************************)
(* Claims about the unpack stage.  They are read in the state in which     *)
(* unpack_mous_delivered has just returned: d_before and d_disk are the    *)
(* manifest and the delivered directory it found, unpack_call what it did. *)
(***************************************************************************)

\* the archives that had an entry and a file when the call began
U_Tracked ==
    { fn \in Filenames : IsArchive(fn) /\ d_disk[fn].exists /\ EntriesOf(d_before, fn) # {} }

\* the entry of a file before and after the call
U_EntryBefore(fn) == d_before.artifacts[EntryLookup(d_before.artifacts, fn)]
U_EntryAfter(fn) == manifest_file.artifacts[EntryLookup(manifest_file.artifacts, fn)]

\* what the loop over the selected archives did with a file
U_MainOutcomes(fn) ==
    { unpack_call[1].main[k].outcome :
        k \in { j \in 1..Len(unpack_call[1].main) : unpack_call[1].main[j].filename = fn } }

\* the file was extracted without error by the loop or by the recursive pass
U_ExtractedInMain(fn) == U_MainOutcomes(fn) \cap {"extracted", "extracted and removed"} # {}
U_Extracted(fn) == U_ExtractedInMain(fn) \/ fn \in unpack_call[1].recursive.unpacked

\* the call deleted the file
U_Deleted(fn) == d_disk[fn].exists /\ ~disk[fn].exists

\* C12: the unpack stage deletes a manifest-tracked archive only after its
\* members were extracted without error and only when the removal policy is
\* enabled; archive_removed_after_unpack is true exactly when the stage
\* deleted the archive, and unpacked_to is then the archive's own directory
C12_RemovalRecorded ==
    d_pc = "unpacked" =>
        \A fn \in U_Tracked :
            /\ U_Deleted(fn) => /\ unpack_call[1].flags.remove_archives_after_unpack
                                /\ U_Extracted(fn)
            /\ U_EntryAfter(fn).removed = "True" <=> U_Deleted(fn)
            /\ U_Deleted(fn) => U_EntryAfter(fn).unpacked_to = "delivered"

\* C13: when the extraction of a selected archive fails, an error is
\* appended to its entry, the archive stays on disk, neither a stamp nor
\* unpacked_to is recorded for it, every selected archive is still
\* processed and the manifest is saved
C13_FailureIsolated ==
    d_pc = "unpacked" =>
        /\ Len(unpack_call[1].main) = Len(unpack_call[1].selected)
        /\ \A k \in 1..Len(unpack_call[1].main) :
               unpack_call[1].main[k].filename = unpack_call[1].selected[k]
        /\ manifest_file.exists
        /\ manifest_file.history = Append(d_before.history, "unpack")
        /\ \A fn \in Filenames :
               "failed" \in U_MainOutcomes(fn) =>
                   /\ U_EntryAfter(fn).unpack_errors = U_EntryBefore(fn).unpack_errors + 1
                   /\ disk[fn].exists
                   /\ manifest_file.unpacked[fn] = d_before.unpacked[fn]
                   /\ U_EntryAfter(fn).unpacked_to = U_EntryBefore(fn).unpacked_to

\* the size and the modification time the file had when the call began
U_StampBefore(fn) == <<d_disk[fn].size, d_disk[fn].mtime>>

\* C14: with archive removal disabled, an unpack invocation on a unit whose
\* selected archive has the size and the modification time of its last
\* successful unpack extracts that archive nowhere in the invocation and
\* leaves its entry unchanged; an archive whose size or modification time
\* changed is extracted again
C14_Idempotent ==
    (d_pc = "unpacked" /\ ~unpack_call[1].flags.remove_archives_after_unpack) =>
        \A k \in 1..Len(unpack_call[1].selected) :
            LET fn == unpack_call[1].selected[k]
            IN /\ d_before.unpacked[fn] = U_StampBefore(fn) =>
                      /\ ~U_Extracted(fn)
                      /\ fn \notin unpack_call[1].recursive.failed
                      /\ U_EntryAfter(fn) = U_EntryBefore(fn)
               /\ d_before.unpacked[fn] \notin {NoStamp, U_StampBefore(fn)} =>
                      U_ExtractedInMain(fn)

\* C15: an archive referenced by the manifest whose kind's policy flag is
\* disabled (auxiliary, readme and weblog each by its own flag, every other
\* kind by the flag of the other archives) is neither extracted nor deleted
\* by an unpack invocation; with the default flags only auxiliary, readme
\* and weblog archives are unpacked
C15_DisabledKindUntouched ==
    d_pc = "unpacked" =>
        \A fn \in U_Tracked :
            ~KindEnabled(U_EntryBefore(fn).kind, unpack_call[1].flags) =>
                /\ U_MainOutcomes(fn) = {}
                /\ fn \notin unpack_call[1].recursive.unpacked
                /\ fn \notin unpack_call[1].recursive.failed
                /\ disk[fn] = d_disk[fn]

\* the filenames of the entries the call found to be candidates, and the
\* filenames it selected and skipped
U_CandidateNames ==
    { d_before.artifacts[i].filename :
        i \in Candidates(d_before.artifacts, d_disk, unpack_call[1].flags) }
U_SelectedNames == { unpack_call[1].selected[k] : k \in 1..Len(unpack_call[1].selected) }
U_SkippedNames == { unpack_call[1].skipped[k].filename : k \in 1..Len(unpack_call[1].skipped) }

\* C16: among the candidate archives of one kind exactly one, one with the
\* greatest modification time, is selected, and every other one is recorded
\* in skipped_archives with the reason "older archive version for same
\* kind"; selected and skipped archives together are exactly the candidates
\* and no archive is in both
C16_NewestPerKind ==
    d_pc = "unpacked" =>
        /\ \A c \in U_CandidateNames :
               LET group == { g \in U_CandidateNames :
                                U_EntryBefore(g).kind = U_EntryBefore(c).kind }
               IN \E fn \in group :
                     /\ group \cap U_SelectedNames = {fn}
                     /\ \A g \in group : d_disk[g].mtime <= d_disk[fn].mtime
                     /\ \A g \in group \ {fn} :
                            \E k \in 1..Len(unpack_call[1].skipped) :
                                unpack_call[1].skipped[k] =
                                    [kind |-> U_EntryBefore(g).kind, filename |-> g,
                                     reason |-> "older archive version for same kind"]
        /\ U_SelectedNames \cup U_SkippedNames = U_CandidateNames
        /\ U_SelectedNames \cap U_SkippedNames = {}
        /\ Len(unpack_call[1].selected) = Cardinality(U_SelectedNames)
        /\ Len(unpack_call[1].skipped) = Cardinality(U_SkippedNames)

\* two auxiliary archives and a weblog archive are candidates; the later
\* entry of the two is the newer one and is selected, the earlier is skipped
C16_Witness ==
    /\ d_pc = "unpacked"
    /\ U_CandidateNames = {AuxName, SecondName, WeblogName}
    /\ d_disk[AuxName].mtime < d_disk[SecondName].mtime
    /\ unpack_call[1].selected = <<SecondName, WeblogName>>
    /\ U_SkippedNames = {AuxName}

(***************************************************************************)
(* Claims about the ASA prefix of a delivered archive.                     *)
(***************************************************************************)

\* the parts of the i-th member of the archive
A_Parts(i) == MemberParts(members[i].name)

\* the prefixes of the two forms that a member lies beneath: the three
\* components, or any component followed by the three
A_IsForm(q) ==
    /\ IsPrefixOf(<<"science_goal.", "uid___">>, q[1])
    /\ IsPrefixOf(<<"group.", "uid___">>, q[2])
    /\ IsPrefixOf(<<"member.", "uid___">>, q[3])

A_PrefixesOf(p) ==
    (IF Len(p) >= 3 /\ A_IsForm(SubSeq(p, 1, 3)) THEN {SubSeq(p, 1, 3)} ELSE {})
    \cup (IF Len(p) >= 4 /\ A_IsForm(SubSeq(p, 2, 4)) THEN {SubSeq(p, 1, 4)} ELSE {})

\* the prefixes all members of the archive share, with a file beneath
A_Shared ==
    { q \in A_PrefixesOf(A_Parts(1)) :
        /\ \A i \in 1..Len(members) : IsPrefixOf(q, A_Parts(i))
        /\ \E i \in 1..Len(members) : members[i].type = "file" /\ Len(A_Parts(i)) > Len(q) }

\* C17: for an archive whose members all share one prefix
\* science_goal.<uid>/group.<uid>/member.<uid> (three components, or four
\* with a leading project component), at whatever depth the files lie
\* beneath it, the extraction strips exactly that prefix from every member
\* and backfills an unset science-goal UID from the stripped component; when
\* the members share no such prefix nothing is stripped
C17_PrefixStripped ==
    x_state \in {"done", "unpacked"} =>
        /\ \A q \in A_Shared :
               /\ strip_prefix = q
               /\ \A i \in 1..Len(members) :
                      (members[i].type = "file" /\ Len(A_Parts(i)) > Len(q)) =>
                          target_dir \o SubSeq(A_Parts(i), Len(q) + 1, Len(A_Parts(i))) \in files
               /\ (x_state = "unpacked" /\ uids_before.science_goal_uid = NoUid) =>
                      uids.science_goal_uid =
                          UidFromComponent(q[Len(q) - 2], "science_goal.")
        /\ A_Shared = {} =>
               \A i \in 1..Len(members) :
                   members[i].type = "file" => target_dir \o A_Parts(i) \in files

\* the component of the detected prefix that names a field's UID
A_UidOf(field) ==
    LET c == IF Len(strip_prefix) = 4 THEN Tail(strip_prefix) ELSE strip_prefix
    IN CASE field = "science_goal_uid" -> UidFromComponent(c[1], "science_goal.")
         [] field = "group_ous_uid" -> UidFromComponent(c[2], "group.")
         [] field = "mous_uid" -> UidFromComponent(c[3], "member.")

\* C18: after a prefix was detected and stripped, each of the manifest's
\* science-goal, group and member UID fields is backfilled from the prefix
\* exactly when it is unset or "unknown"; a field that holds a known UID is
\* not changed
C18_BackfillUnsetOrUnknown ==
    (x_state = "unpacked" /\ strip_prefix # NoPrefix) =>
        \A field \in {"science_goal_uid", "group_ous_uid", "mous_uid"} :
            uids[field] = IF uids_before[field] \in {NoUid, UnknownUid}
                          THEN A_UidOf(field)
                          ELSE uids_before[field]

(***************************************************************************)
(* Claims about the recursive unpack.                                      *)
(***************************************************************************)

\* the number of archive layers down to an archive
RECURSIVE N_Depth(_)
N_Depth(a) == IF tree[a].parent = 0 THEN 1 ELSE 1 + N_Depth(tree[a].parent)

\* every extraction of an archive that an extraction of pass k revealed is
\* one of pass k + 1 or later
N_RevealedWaits ==
    \A a \in ArchivePaths :
        nested.revealed[a] >= 1 =>
            \A j \in 1..Len(nested.attempts[a]) :
                nested.attempts[a][j] >= nested.revealed[a] + 1

\* C19 as stated: recursive unpack performs at most max_passes scan passes,
\* an archive first revealed by an extraction in pass k is extracted no
\* earlier than pass k + 1, and with N + 1 nested layers and max_passes = N
\* the innermost layer remains unextracted
C19_AtMostMaxPasses ==
    /\ nested.scans <= nested.max_passes
    /\ N_RevealedWaits
    /\ \A a \in ArchivePaths :
           N_Depth(a) = nested.max_passes + 1 => nested.attempts[a] = <<>>

\* the number of passes of a run: max_passes, and one pass when max_passes
\* is less than one
C19_Limit == IF nested.max_passes > 1 THEN nested.max_passes ELSE 1

\* C19, amended: recursive unpack performs at most max(1, max_passes) scan
\* passes, an archive first revealed by an extraction in pass k is extracted
\* no earlier than pass k + 1, and with N + 1 nested layers and
\* max(1, max_passes) = N the innermost layer remains unextracted
C19_AtMostPassLimit ==
    /\ nested.scans <= C19_Limit
    /\ N_RevealedWaits
    /\ \A a \in ArchivePaths :
           N_Depth(a) = C19_Limit + 1 => nested.attempts[a] = <<>>

\* three nested layers and max_passes = 2: the run has made its two passes,
\* the second revealed the innermost archive, and it lies there unextracted
C19_Witness ==
    /\ nested.pc = "returned"
    /\ nested.max_passes = 2
    /\ tree[2].parent = 1 /\ tree[3].parent = 2
    /\ Len(nested.passes) = 2
    /\ nested.revealed[3] = 2
    /\ tree[3].state = "present"
    /\ nested.attempts[3] = <<>>

\* what the summary holds of pass j: the pass number and the archives that
\* were extracted and that failed in it
N_PassRecorded(j) ==
    /\ nested.passes[j].pass = j
    /\ { nested.passes[j].archives[i] : i \in 1..Len(nested.passes[j].archives) }
           = { a \in ArchivePaths : nested.attempts[a] = <<j>> /\ tree[a].tar = "ok" }
    /\ { nested.passes[j].errors[i] : i \in 1..Len(nested.passes[j].errors) }
           = { a \in ArchivePaths : nested.attempts[a] = <<j>> /\ tree[a].tar # "ok" }
    /\ nested.passes[j].archives \o nested.passes[j].errors # <<>>

\* C20: within one run every archive path is extracted at most once, also
\* when removal is disabled or the extraction failed; every pass and its
\* errors are recorded; the run ends at the first pass that finds no
\* unprocessed matching archive; the run always terminates
C20_OncePerRun ==
    /\ [](/\ \A a \in ArchivePaths : Len(nested.attempts[a]) <= 1
          /\ nested.pc \in {"scan", "returned"} =>
                 /\ \A j \in 1..Len(nested.passes) : N_PassRecorded(j)
                 /\ \A a \in ArchivePaths :
                        nested.attempts[a] # <<>> => nested.attempts[a][1] <= Len(nested.passes)
          /\ nested.scans <= Len(nested.passes) + 1
          /\ (nested.pc = "returned" /\ nested.scans = Len(nested.passes)
                /\ nested.patterns # "none") =>
                 nested.pass_idx = C19_Limit)
    /\ <>(nested.pc = "returned")

\* a run with removal disabled has ended at its third scan, which found
\* nothing left: two passes are recorded, an archive that failed in the first
\* and one that was extracted in the second are still in the directory, and
\* neither was taken again
C20_Witness ==
    /\ nested.pc = "returned"
    /\ ~nested.remove_archives_after_unpack
    /\ nested.scans = 3
    /\ Len(nested.passes) = 2
    /\ nested.error_count >= 1
    /\ nested.unpacked_count >= 1
    /\ \E a, b \in ArchivePaths :
          /\ tree[a].tar = "partial" /\ nested.attempts[a] = <<1>> /\ tree[a].state = "present"
          /\ tree[b].tar = "ok" /\ nested.attempts[b] = <<2>> /\ tree[b].state = "present"

\* the nested archives with the name of a kind
G_Named(name) == { a \in ArchivePaths : tree[a].name = name }

\* C21: with the default patterns, a run that removes archives extracts and
\* removes the nested auxproducts and caltables archives that an earlier
\* extraction revealed, and a flag-version bundle is never extracted or
\* deleted: after the run it is still on disk with nothing extracted from it
C21_FlagVersionsUntouched ==
    (nested.patterns = "default" /\ nested.pc = "returned") =>
        /\ \A a \in G_Named(AuxProductsName) \cup G_Named(CalTablesName) :
               (nested.revealed[a] \in 1..(MaxPasses - 1)) =>
                   /\ nested.attempts[a] # <<>>
                   /\ nested.remove_archives_after_unpack => tree[a].state = "removed"
        /\ \A a \in G_Named(FlagVersionsName) :
               /\ nested.attempts[a] = <<>>
               /\ tree[a].state # "removed"

\* the last call, the summary it gave to upsert_mous_from_summary and the
\* unit it named
I_Last == upsert_call[1]
I_Summary ==
    CASE I_Last.call.entry = "manifest_only" -> SummaryFromManifest(I_Last.call.manifest)
      [] I_Last.call.entry = "ingest" -> WithSummaryPath(I_Last.call.summary)
      [] OTHER -> I_Last.call.summary
I_Uid == ResolveUid(I_Summary, I_Last.call.manifest)[2]
I_Returned == upsert_call # <<>> /\ I_Last.outcome = "returned"
I_RowsOf(table, u) == { r \in table : r.mous_uid = u }

\* C22: after any sequence of upsert calls the mous table holds one row for
\* each unit, every column of the row of the unit of the last call is the
\* value computed from that call, and the rows of the other units are as
\* the call found them
C22_OneRowLatestCall ==
    /\ \A u \in Units : Cardinality(I_RowsOf(store.mous, u)) <= 1
    /\ I_Returned =>
           /\ I_RowsOf(store.mous, I_Uid)
                  = {MousRow(I_Uid, I_Summary, I_Last.call.manifest,
                             I_Last.call.last_error_stage, I_Last.call.last_error_message,
                             I_Last.call.shard_id, I_Last.n)}
           /\ \A u \in Units \ {I_Uid} :
                  I_RowsOf(store.mous, u) = I_RowsOf(store_before.mous, u)

\* the second call for a unit has overwritten the project code that the
\* first call gave it
C22_Witness ==
    /\ I_Returned
    /\ I_Last.n = 2
    /\ \E old \in I_RowsOf(store_before.mous, I_Uid), new \in I_RowsOf(store.mous, I_Uid) :
          /\ old.project_code = PyStr("ps")
          /\ new.project_code = PyStr("pm")

\* C23: after an upsert for a unit the execution-block rows and the
\* artifact rows of the unit are those of the latest call, and a block or an
\* artifact of an earlier call that the latest call does not name is gone
C23_RowsReplaced ==
    I_Returned =>
        /\ { r \in store.eb : r[1] = I_Uid }
               = { <<I_Uid, eb>> : eb \in SummaryEbUids(I_Summary, I_Last.call.manifest) }
        /\ { r.filename : r \in I_RowsOf(store.artifact, I_Uid) }
               = { I_Last.call.manifest.artifacts[k].filename :
                       k \in 1..Len(I_Last.call.manifest.artifacts) }

\* the row of the unit of the last call
I_Row == CHOOSE r \in store.mous : r.mous_uid = I_Uid

\* the QA2 values that the last call carried
I_QaGiven ==
    {I_Last.call.summary.qa2_status, I_Last.call.summary.qa, I_Last.call.manifest.qa2_status,
     I_Last.call.manifest.qa2_passed} \ {PyNone}

I_PassForms == {PyTrue, PyStr("T"), PyStr("true"), PyStr("1"), PyStr("PASS")}
I_FailForms == {PyFalse, PyStr("F"), PyStr("FALSE"), PyStr("0")}

\* C24: a QA2 value given as true, as a truthy token in any letter case or
\* as PASS is stored as PASS, and one given as false, F, FALSE or 0 as FAIL,
\* whatever the form and whichever of the summary and the manifest gave it
C24_QaNormalised ==
    (I_Returned /\ I_QaGiven # {}) =>
        /\ I_QaGiven \subseteq I_PassForms => I_Row.qa2_status = PyStr("PASS")
        /\ I_QaGiven \subseteq I_FailForms => I_Row.qa2_status = PyStr("FAIL")

\* the QA2 values that the summary of the last call carried
I_SummaryQa == {I_Last.call.summary.qa2_status, I_Last.call.summary.qa} \ {PyNone}

\* C25: when the summary carries a QA2 status, at top level or in its qa
\* block, the stored status is derived from the summary whatever the value,
\* and the manifest is used only when the summary carries none
C25_SummaryFirst ==
    (I_Returned /\ I_Last.call.entry = "upsert" /\ I_SummaryQa # {}) =>
        I_Row.qa2_status \in { QaStatusText(v) : v \in I_SummaryQa }

\* C26: in the row of an upsert, downloaded is 1 exactly when an artifact of
\* the manifest is present, unpacked is 1 exactly when the manifest records
\* an unpack that succeeded, and summarized is 1 exactly when a summary was
\* supplied: it is 0 for a unit indexed from its manifest alone
C26_ComputedFlags ==
    I_Returned =>
        /\ I_Row.downloaded = 1 <=>
               \E k \in 1..Len(I_Last.call.manifest.artifacts) :
                   I_Last.call.manifest.artifacts[k].status = "present"
        /\ I_Row.unpacked = 1 <=> I_Last.call.manifest.unpacked \notin {PyNone, PyEmptyDict}
        /\ I_Row.summarized = 1 <=>
               (I_Last.call.entry # "manifest_only" /\ ~I_Last.call.summary.empty)
        /\ {I_Row.downloaded, I_Row.unpacked, I_Row.summarized} \subseteq {0, 1}

\* what the last call says of errors: whether the caller named a stage and
\* a message, and the artifacts in error before which none is in error
I_Explicit == Truthy(I_Last.call.last_error_stage) /\ Truthy(I_Last.call.last_error_message)
I_FirstErrors ==
    { k \in 1..Len(I_Last.call.manifest.artifacts) :
        /\ I_Last.call.manifest.artifacts[k].status = "error"
        /\ \A j \in 1..(k - 1) : I_Last.call.manifest.artifacts[j].status # "error" }

\* C27 as stated: the last-error stage and message of the row are the
\* caller's explicit error when the caller supplied one, otherwise stage
\* download and the message of the first artifact in error, otherwise null
C27_ExplicitOrFirstError ==
    I_Returned =>
        IF I_Explicit
        THEN /\ I_Row.last_error_stage = I_Last.call.last_error_stage
             /\ I_Row.last_error_message = I_Last.call.last_error_message
        ELSE IF I_FirstErrors # {}
        THEN /\ I_Row.last_error_stage = PyStr("download")
             /\ \A k \in I_FirstErrors :
                    I_Row.last_error_message = I_Last.call.manifest.artifacts[k].error
        ELSE /\ I_Row.last_error_stage = PyNone
             /\ I_Row.last_error_message = PyNone

\* C27, amended: the stage and the message are the caller's when the caller
\* supplied both; otherwise, when an artifact is in error, they are stage
\* download and the message of the first such artifact, or "artifact
\* download failed" when it carries none; otherwise they are what the caller
\* supplied, null where it supplied nothing
C27_BothOrFirstError ==
    I_Returned =>
        IF I_Explicit \/ I_FirstErrors = {}
        THEN /\ I_Row.last_error_stage = I_Last.call.last_error_stage
             /\ I_Row.last_error_message = I_Last.call.last_error_message
        ELSE /\ I_Row.last_error_stage = PyStr("download")
             /\ \A k \in I_FirstErrors :
                    I_Row.last_error_message
                        = IF I_Last.call.manifest.artifacts[k].error = PyNone
                          THEN PyStr("artifact download failed")
                          ELSE I_Last.call.manifest.artifacts[k].error

\* two artifacts are in error, the caller named no error, and the row holds
\* the message of the first
C27_Witness ==
    /\ I_Returned
    /\ ~I_Explicit
    /\ Len(I_Last.call.manifest.artifacts) = 2
    /\ I_Last.call.manifest.artifacts[1].error = PyStr(ErrorOf(IndexFiles[1]))
    /\ I_Last.call.manifest.artifacts[2].error = PyStr(ErrorOf(IndexFiles[2]))
    /\ I_Row.last_error_stage = PyStr("download")
    /\ I_Row.last_error_message = PyStr(ErrorOf(IndexFiles[1]))

\* C28: an upsert for which neither the summary nor the manifest names a
\* unit fails with an error and writes nothing to the store, and the
\* failure ends that call only
C28_MissingKeyFails ==
    (upsert_call # <<>> /\ ~Truthy(ResolveUid(I_Summary, I_Last.call.manifest))) =>
        /\ I_Last.outcome = "raised"
        /\ store = store_before
        /\ I_Last.command = "running"

\* the sources that can be opened and parsed and name a unit: the ones that
\* a merge has to apply
M_Valid == { i \in 1..Len(merge.sources) : merge.sources[i].state = "ok" }

\* the row that source i gives the unit
M_SourceRow(i, u) ==
    IF merge.sources[i].kind = "shard" THEN ShardRow(u, SourceNames[i])
    ELSE MousRow(u, SummaryCall(merge.sources[i], SourceNames[i]).summary, EmptyManifest,
                 PyNone, PyNone, PyStr(SourceNames[i]), i)

\* C29: after the merge the central row of a unit is the row of the last
\* source, in the order of the merge, among the merged sources that hold the
\* unit, and the central row of a unit that no merged source holds is as it
\* was
C29_LastSourceWins ==
    merge.pc = "done" =>
        \A u \in Units :
            LET holders == { i \in M_Valid : u \in merge.sources[i].units }
            IN IF holders = {}
               THEN I_RowsOf(store.mous, u) = I_RowsOf(store_before.mous, u)
               ELSE I_RowsOf(store.mous, u)
                        = { M_SourceRow(CHOOSE i \in holders : \A j \in holders : j <= i, u) }

\* the store after the valid sources from the i-th on have been applied to
\* these tables
RECURSIVE M_Applied(_, _)
M_Applied(tables, i) ==
    IF i > Len(merge.sources) THEN tables
    ELSE IF i \notin M_Valid THEN M_Applied(tables, i + 1)
    ELSE IF merge.sources[i].kind = "shard"
    THEN M_Applied(MergeDb(tables, tables, FALSE, merge.sources[i], SourceNames[i]).tables,
                   i + 1)
    ELSE M_Applied(MergeSummary(tables, tables, FALSE, merge.sources[i], SourceNames[i],
                                i).tables, i + 1)

\* C30: a source that cannot be opened or parsed is skipped: the merge does
\* not end with an error, and when it has ended the central store is the
\* one that the valid sources alone give and the two counts are the numbers
\* of valid shard stores and of valid summary files
C30_SkippedSourcesOnly ==
    /\ merge.pc # "raised"
    /\ merge.pc = "done" =>
           /\ store = M_Applied(store_before, 1)
           /\ merge.merged_shard_dbs
                  = Cardinality({ i \in M_Valid : merge.sources[i].kind = "shard" })
           /\ merge.merged_summary_files
                  = Cardinality({ i \in M_Valid : merge.sources[i].kind = "summary" })

\* the kinds that a token of the specification names, and whether the token
\* adds them
S_Named(token) ==
    IF token.sign = "" /\ token.word = "default" THEN DEFAULT_ARTIFACT_KINDS
    ELSE IF token.sign = "" /\ token.word = "all-nonimage" THEN ALL_NONIMAGE_KINDS
    ELSE {NormalizeKind(token.word)}
S_Adds(token) == token.sign # "-"

\* the kinds whose last token in the specification adds them
S_LastAdded ==
    { k \in UNION { S_Named(selection.tokens[i]) : i \in 1..Len(selection.tokens) } :
        \E i \in 1..Len(selection.tokens) :
            /\ k \in S_Named(selection.tokens[i])
            /\ S_Adds(selection.tokens[i])
            /\ \A j \in (i + 1)..Len(selection.tokens) : k \notin S_Named(selection.tokens[j]) }

\* C34: the tokens are applied from left to right to the empty set, default
\* and all-nonimage adding their sets, a bare or + token adding its kind and
\* a - token removing it, so a kind is selected exactly when the last token
\* that names it adds it; an empty selection becomes the default set; the
\* default set has no raw, continuum_images or cubes, and the non-image set
\* has auxiliary, readme and calibration and no continuum_images or cubes
C34_SelectionLeftToRight ==
    /\ DEFAULT_ARTIFACT_KINDS
           = {"calibration", "scripts", "weblog", "qa_reports", "auxiliary", "readme",
              "calibration_products"}
    /\ ALL_NONIMAGE_KINDS \cap {"continuum_images", "cubes"} = {}
    /\ {"auxiliary", "readme", "calibration"} \subseteq ALL_NONIMAGE_KINDS
    /\ selection.pc = "done" =>
           /\ selection.result # {}
           /\ selection.result
                  = IF S_LastAdded = {} THEN DEFAULT_ARTIFACT_KINDS ELSE S_LastAdded

\* the specification default,+raw,-weblog of the test has been resolved
C34_Witness ==
    /\ selection.pc = "done"
    /\ selection.spec = << [sign |-> "", word |-> "default"], [sign |-> "+", word |-> "Raw"],
                           [sign |-> "-", word |-> "weblog"] >>
    /\ "raw" \in selection.result
    /\ "weblog" \notin selection.result

\* the rules in their order: the kind, the words looked for in the filename
\* and the words looked for in the semantics
K_Rules ==
    << [kind |-> "readme", name |-> {"readme"}, semantics |-> {"readme", "documentation"}],
       [kind |-> "weblog", name |-> {"weblog"}, semantics |-> {"weblog"}],
       [kind |-> "qa_reports", name |-> {"qa0_report", "qa2_report", "qa/", "aquareport"},
        semantics |-> {"/qa/", "#qa", "qa2"}],
       [kind |-> "auxiliary", name |-> {"auxiliary", "auxproducts"},
        semantics |-> {"#auxiliary", "auxiliary"}],
       [kind |-> "scripts", name |-> {"scriptforpi"}, semantics |-> {"script"}],
       [kind |-> "calibration", name |-> {"calibration", ".cal$"}, semantics |-> {"calibration"}],
       [kind |-> "calibration_products", name |-> {"calimage"}, semantics |-> {"calimage"}],
       [kind |-> "cubes", name |-> {"cube"}, semantics |-> {}],
       [kind |-> "continuum_images", name |-> {"cont"}, semantics |-> {}],
       [kind |-> "admit", name |-> {"admit"}, semantics |-> {}],
       [kind |-> "continuum_images", name |-> {"image"}, semantics |-> {}],
       [kind |-> "raw", name |-> {"asdm", "raw"}, semantics |-> {}] >>

\* the rules that match the call
K_Matching ==
    { i \in 1..Len(K_Rules) :
        \/ \E word \in K_Rules[i].name : In(word, classify.filename)
        \/ \E word \in K_Rules[i].semantics : In(word, classify.semantics) }

\* the kind of the earliest rule that matches
K_Earliest == K_Rules[CHOOSE i \in K_Matching : \A j \in K_Matching : i <= j].kind

C38_FailedShardGivesNothing ==
    merge.pc # "off" =>
        \A i \in 1..Len(merge.sources) :
            merge.sources[i].state = "no_eb" =>
                \A r \in store.mous : r.shard_id # PyStr(SourceNames[i])

\* C40: a second merge of the same shard stores leaves the mous, eb and
\* artifact rows of the central store as the first merge left them
C40_MergeIdempotent ==
    (merge.pc \in {"done", "raised"} /\ merge.run = 2) => store = store_before

\* two shard stores that hold the same unit have been merged twice into a
\* central store that had a row for the unit
C40_Witness ==
    /\ merge.pc = "done"
    /\ merge.run = 2
    /\ Len(merge.sources) = 2
    /\ \A i \in 1..2 : merge.sources[i].state = "ok" /\ "u1" \in merge.sources[i].units
    /\ merge.merged_shard_dbs = 2
    /\ ShardRow("u1", SourceNames[2]) \in store.mous
    /\ ShardRow("u2", "central") \in store.mous

\* C39: in a download invocation no two transfers that run at the same time
\* are for the same filename, so none shares the .part file or the final
\* path of another, also when the listing names a file twice
C39_NoSharedPartFile ==
    \A i \in Running, j \in Running :
        i # j => tasks[i].art.filename # tasks[j].art.filename

\* C36: with a server that honours ranges and serves content of the
\* expected size, the transfer returns ok in the end, whatever .part file
\* it found
C36_EventuallyOk == <>(t_pc = "returned" /\ result.status = "ok")

\* ---------------------------------------------------------------------------
\* The batch commands
\* ---------------------------------------------------------------------------

\* the command is over
B_Ended == batch.pc \in {"returned", "raised"}

\* C31: a batch command goes on past the failure of one unit and ends with
\* the report of its count: a command that is over has made its report
C31_FailureDoesNotEndBatch == B_Ended => batch.reported

\* the units a command works on: unpack and summarize pass a directory
\* without a manifest
B_Eligible ==
    { i \in DOMAIN batch.units :
        batch.command \in {"unpack", "summarize"} => batch.before[i].manifest # "absent" }

\* the units the loop has come to
B_Started == { i \in B_Eligible : i <= batch.at }

\* the budget is used up
B_Exceeded ==
    batch.max_runtime_min # 0 /\ batch.utcnow >= batch.started + batch.max_runtime_min

\* a command the budget has stopped has counted a unit and is over
B_StoppedAfterUnit == batch.stopped => (batch.pc = "returned" /\ batch.done >= 1 /\ B_Exceeded)

\* the budget stops the command nowhere but after the row of a unit, and
\* there a budget that is used up lets no other unit start
B_StopsBetweenUnits ==
    /\ (batch'.stopped /\ ~batch.stopped) => batch.pc = "check"
    /\ (batch.pc = "check" /\ B_Exceeded /\ batch'.pc # "check")
           => (batch'.pc = "returned" /\ batch'.at = batch.at)

\* a command that is over has counted every unit it came to, the first one
\* of a batch that has one among them
B_StartedUnitsFinished ==
    /\ B_Ended => batch.done = Cardinality(B_Started)
    /\ (B_Ended /\ B_Eligible # {}) => batch.done >= 1

\* C32: the budget is looked at only between two units, after the row of the
\* one is written; once it is used up no other unit starts; and the unit in
\* flight always finishes, so that a batch that is not empty has its first
\* unit counted
C32_BudgetEndsNoUnitInFlight ==
    /\ [](B_StoppedAfterUnit /\ B_StartedUnitsFinished)
    /\ [][B_StopsBetweenUnits]_vars

\* C33: every write of a manifest, in every stage and command, is a write of
\* a temporary file and a rename: the manifest is never a partial document
C33_ManifestNeverPartial ==
    \A i \in DOMAIN batch.units : batch.units[i].manifest # "partial"

\* the files of a unit
B_Files(f) == [manifest |-> f.manifest, named |-> f.named, present |-> f.present,
               unpacked |-> f.unpacked]

\* a column that is 1 stays 1
B_FlagsKept(old, new) ==
    /\ new.downloaded >= old.downloaded
    /\ new.unpacked >= old.unpacked
    /\ new.summarized >= old.summarized

\* the columns of the summary stay what they are
B_SummaryColumnsKept(old, new) ==
    /\ new.dr_flag_commands_count = old.dr_flag_commands_count
    /\ new.asa_qa_present = old.asa_qa_present

\* C37: the row of a unit whose files do not change never goes back: no
\* command turns a flag of it from 1 to 0, and download and unpack leave the
\* columns of the summary as they find them
C37_RowNeverRegresses ==
    [][\A i \in DOMAIN batch.rows :
         (batch.rows[i].found /\ B_Files(batch.units[i]) = B_Files(batch.before[i]))
             => /\ B_FlagsKept(batch.rows[i], batch'.rows[i])
                /\ batch.command \in {"download", "unpack"}
                       => B_SummaryColumnsKept(batch.rows[i], batch'.rows[i])]_vars

====
